---------------------------- MODULE Spec2Model ----------------------------
(***************************************************************************)
(* Model of src/scheulde_mcp/schedule_save.py: the schedule_save tool of   *)
(* the MCP server "schedule-save-server-utc".                              *)
(*                                                                         *)
(* Text is a sequence of one-character strings, so that trimming, upper-   *)
(* casing, parsing (strptime) and formatting (strftime) are computed and   *)
(* not assumed.  A datetime is a record of its calendar fields.  A Python  *)
(* value that may be None or missing is a sequence of length 0 or 1.       *)
(***************************************************************************)
EXTENDS Integers, Sequences, FiniteSets, TLC

\* ------------------------------------------------------------------ text

Digits == <<"0", "1", "2", "3", "4", "5", "6", "7", "8", "9">>
LowerAlpha == <<"a", "b", "c", "d", "e", "f", "g", "h", "i", "j", "k", "l", "m",
                "n", "o", "p", "q", "r", "s", "t", "u", "v", "w", "x", "y", "z">>
UpperAlpha == <<"A", "B", "C", "D", "E", "F", "G", "H", "I", "J", "K", "L", "M",
                "N", "O", "P", "Q", "R", "S", "T", "U", "V", "W", "X", "Y", "Z">>

IsDigit(c) == \E i \in 1..10 : Digits[i] = c
DigitVal(c) == (CHOOSE i \in 1..10 : Digits[i] = c) - 1
AllDigits(s) == \A i \in 1..Len(s) : IsDigit(s[i])

RECURSIVE ToInt(_)
ToInt(s) == IF s = <<>> THEN 0
            ELSE 10 * ToInt(SubSeq(s, 1, Len(s) - 1)) + DigitVal(s[Len(s)])

SetMin(S) == CHOOSE x \in S : \A y \in S : x <= y
SetMax(S) == CHOOSE x \in S : \A y \in S : x >= y

\* str.strip(): leading and trailing blanks removed
Strip(s) ==
    LET idx == {i \in 1..Len(s) : s[i] # " "}
    IN  IF idx = {} THEN <<>> ELSE SubSeq(s, SetMin(idx), SetMax(idx))

UpperChar(c) ==
    IF \E i \in 1..26 : LowerAlpha[i] = c
    THEN UpperAlpha[CHOOSE i \in 1..26 : LowerAlpha[i] = c]
    ELSE c
\* str.upper()
Upper(s) == [i \in 1..Len(s) |-> UpperChar(s[i])]

\* two decimal digits, zero padded (%02d); four for the year (%04d)
Pad2(n) == <<Digits[((n \div 10) % 10) + 1], Digits[(n % 10) + 1]>>
Pad4(n) == <<Digits[((n \div 1000) % 10) + 1], Digits[((n \div 100) % 10) + 1]>> \o Pad2(n % 100)

\* ------------------------------------------------------------- calendar

IsLeap(y) == (y % 4 = 0) /\ ((y % 100 # 0) \/ (y % 400 = 0))

\* calendar.monthrange(y, m)[1]
DaysInMonth(y, m) ==
    CASE m \in {1, 3, 5, 7, 8, 10, 12} -> 31
      [] m \in {4, 6, 9, 11} -> 30
      [] OTHER -> IF IsLeap(y) THEN 29 ELSE 28

DaysBeforeYear(y) == LET p == y - 1 IN p * 365 + (p \div 4) - (p \div 100) + (p \div 400)

RECURSIVE DaysBeforeMonth(_, _)
DaysBeforeMonth(y, m) == IF m = 1 THEN 0 ELSE DaysBeforeMonth(y, m - 1) + DaysInMonth(y, m - 1)

\* date.toordinal()
ToOrdinal(y, m, d) == DaysBeforeYear(y) + DaysBeforeMonth(y, m) + d

\* date.fromordinal(n)
FromOrdinal(n) ==
    LET lo == ((n - 1) \div 366) + 1
        hi == ((n - 1) \div 365) + 1
        y  == CHOOSE yy \in lo..hi : DaysBeforeYear(yy) < n /\ n <= DaysBeforeYear(yy + 1)
        r  == n - DaysBeforeYear(y)
        m  == CHOOSE mm \in 1..12 : DaysBeforeMonth(y, mm) < r
                                    /\ r <= DaysBeforeMonth(y, mm) + DaysInMonth(y, mm)
    IN  [year |-> y, month |-> m, day |-> r - DaysBeforeMonth(y, m)]

\* datetime.weekday(): 0 = Monday .. 6 = Sunday
Weekday(dt) == (ToOrdinal(dt.year, dt.month, dt.day) + 6) % 7

DateTime(y, m, d, hh, mm, ss) ==
    [year |-> y, month |-> m, day |-> d, hour |-> hh, minute |-> mm, second |-> ss]

\* dt + timedelta(days = n)
AddDays(dt, n) ==
    LET c == FromOrdinal(ToOrdinal(dt.year, dt.month, dt.day) + n)
    IN  DateTime(c.year, c.month, c.day, dt.hour, dt.minute, dt.second)

\* dt + timedelta(seconds = n), n >= 0
AddSeconds(dt, n) ==
    LET t == dt.hour * 3600 + dt.minute * 60 + dt.second + n
        c == FromOrdinal(ToOrdinal(dt.year, dt.month, dt.day) + (t \div 86400))
        r == t % 86400
    IN  DateTime(c.year, c.month, c.day, r \div 3600, (r \div 60) % 60, r % 60)

\* ------------------------------------------------- strptime / strftime

\* the result of a call that may raise: a value, or the exception raised
Some(v) == [ok |-> TRUE, v |-> v]
Raise(exc, msg) == [ok |-> FALSE, exc |-> exc, msg |-> msg]
Fail == Raise("ValueError", "strptime")

\* %m : 1[0-2]|0[1-9]|[1-9]
MonthTok(t) == \/ Len(t) = 2 /\ AllDigits(t) /\ ToInt(t) \in 1..12
               \/ Len(t) = 1 /\ AllDigits(t) /\ ToInt(t) \in 1..9
\* %d : 3[01]|[12]\d|0[1-9]|[1-9]| [1-9]
DayTok(t) == \/ Len(t) = 2 /\ AllDigits(t) /\ ToInt(t) \in 1..31
             \/ Len(t) = 1 /\ AllDigits(t) /\ ToInt(t) \in 1..9
             \/ Len(t) = 2 /\ t[1] = " " /\ IsDigit(t[2]) /\ DigitVal(t[2]) \in 1..9
\* %H : 2[0-3]|[0-1]\d|\d
HourTok(t) == Len(t) \in 1..2 /\ AllDigits(t) /\ ToInt(t) \in 0..23
\* %M : [0-5]\d|\d
MinuteTok(t) == Len(t) \in 1..2 /\ AllDigits(t) /\ ToInt(t) \in 0..59

\* numeric value of a %d token (" 5" is 5)
DayVal(t) == IF t[1] = " " THEN DigitVal(t[2]) ELSE ToInt(t)

\* datetime.strptime(s, "%Y-%m-%d"): the whole text must match and name a real day
ParseYmd(s) ==
    LET n  == Len(s)
        p2 == {p \in 7..n : s[p] = "-"}
    IN  IF n < 8 \/ ~AllDigits(SubSeq(s, 1, 4)) \/ s[5] # "-" \/ p2 = {} THEN Fail
        ELSE LET q  == SetMin(p2)
                 mt == SubSeq(s, 6, q - 1)
                 dt == SubSeq(s, q + 1, n)
                 y  == ToInt(SubSeq(s, 1, 4))
             IN  IF ~MonthTok(mt) \/ ~DayTok(dt) THEN Fail
                 ELSE IF y < 1 \/ DayVal(dt) > DaysInMonth(y, ToInt(mt)) THEN Fail
                 ELSE Some(DateTime(y, ToInt(mt), DayVal(dt), 0, 0, 0))

\* datetime.strptime(s, "%H:%M") succeeds
ParsesHhmm(s) ==
    LET p == {i \in 1..Len(s) : s[i] = ":"}
    IN  /\ p # {}
        /\ HourTok(SubSeq(s, 1, SetMin(p) - 1))
        /\ MinuteTok(SubSeq(s, SetMin(p) + 1, Len(s)))

\* dt.strftime("%Y-%m-%d")
ToDateString(dt) == Pad4(dt.year) \o <<"-">> \o Pad2(dt.month) \o <<"-">> \o Pad2(dt.day)

\* ------------------------------------------------------- Python values

\* a JSON value of a token field: an integer or a text; a field is <<>> when it
\* is missing (or null) and <<value>> when it is present
IntV(k) == <<[t |-> "int", i |-> k, s |-> <<>>]>>
StrV(s) == <<[t |-> "str", i |-> 0, s |-> s]>>
\* a field that holds a non-empty JSON array
ListV == <<[t |-> "list", i |-> 0, s |-> <<>>]>>

\* truth value of token.get(field)
Truthy(f) == /\ f # <<>>
             /\ CASE f[1].t = "int" -> f[1].i # 0
                  [] f[1].t = "str" -> f[1].s # <<>>
                  [] OTHER -> TRUE

\* a or b
PyOr(a, b) == IF Truthy(a) THEN a ELSE b

\* int(x)
PyInt(f) ==
    IF f = <<>> THEN Raise("TypeError", "int() argument")
    ELSE IF f[1].t = "int" THEN Some(f[1].i)
    ELSE IF f[1].t # "str" THEN Raise("TypeError", "int() argument")
    ELSE LET s    == Strip(f[1].s)
             sgn  == s # <<>> /\ s[1] \in {"-", "+"}
             body == IF sgn THEN Tail(s) ELSE s
         IN  IF body # <<>> /\ AllDigits(body)
             THEN Some(IF s[1] = "-" THEN 0 - ToInt(body) ELSE ToInt(body))
             ELSE Raise("ValueError", "invalid literal for int()")

\* an offset taken with its sign
Abs_Signed(k) == k

Abs(k) == IF k < 0 THEN 0 - k ELSE k

\* ------------------------------------------------------------- config

\* the seven Korean one-syllable labels, Monday first; each label is one
\* character, written here by its romanised name
WEEKDAY_KO == <<"wol", "hwa", "su", "mok", "geum", "to", "il">>
WEEKDAY_EN == << <<"M", "O", "N">>, <<"T", "U", "E">>, <<"W", "E", "D">>, <<"T", "H", "U">>,
                 <<"F", "R", "I">>, <<"S", "A", "T">>, <<"S", "U", "N">> >>
DEDUP_TTL_SEC == 90

T_MORNING == <<"M", "O", "R", "N", "I", "N", "G">>
T_AFTERNOON == <<"A", "F", "T", "E", "R", "N", "O", "O", "N">>
T_EVENING == <<"E", "V", "E", "N", "I", "N", "G">>
T_NIGHT == <<"N", "I", "G", "H", "T">>
SlotNames == {T_MORNING, T_AFTERNOON, T_EVENING, T_NIGHT}
SLOT_TABLE(slot) ==
    CASE slot = T_MORNING -> <<"0", "9", ":", "0", "0">>
      [] slot = T_AFTERNOON -> <<"1", "5", ":", "0", "0">>
      [] slot = T_EVENING -> <<"1", "9", ":", "0", "0">>
      [] slot = T_NIGHT -> <<"2", "1", ":", "0", "0">>

T_ABSOLUTE == <<"A", "B", "S", "O", "L", "U", "T", "E">>
T_TOKEN == <<"T", "O", "K", "E", "N">>
T_THIS_MONTH == <<"T", "H", "I", "S", "_", "M", "O", "N", "T", "H">>
T_NEXT_MONTH == <<"N", "E", "X", "T", "_", "M", "O", "N", "T", "H">>
T_SAME_MONTH_DATA == <<"S", "A", "M", "E", "_", "M", "O", "N", "T", "H", "_", "D", "A", "T", "A">>
T_AFTER_N_DAY == <<"A", "F", "T", "E", "R", "_", "N", "_", "D", "A", "Y">>
T_THIS_WEEK == <<"T", "H", "I", "S", "_", "W", "E", "E", "K">>
T_NEXT_WEEK == <<"N", "E", "X", "T", "_", "W", "E", "E", "K">>
T_AFTER_N_WEEK == <<"A", "F", "T", "E", "R", "_", "N", "_", "W", "E", "E", "K">>
T_WEEKDAY_OF == <<"W", "E", "E", "K", "D", "A", "Y", "_", "O", "F">>
T_NTH_WEEKDAY_OF_MONTH == <<"N", "T", "H", "_", "W", "E", "E", "K", "D", "A", "Y", "_", "O", "F",
                            "_", "M", "O", "N", "T", "H">>
T_END_OF_MONTH == <<"E", "N", "D", "_", "O", "F", "_", "M", "O", "N", "T", "H">>
T_BEGIN_OF_MONTH == <<"B", "E", "G", "I", "N", "_", "O", "F", "_", "M", "O", "N", "T", "H">>
T_ABS == <<"A", "B", "S">>
T_SLOT == <<"S", "L", "O", "T">>
T_AFTER_N_HOUR == <<"A", "F", "T", "E", "R", "_", "N", "_", "H", "O", "U", "R">>

\* ---------------------------------------------------------------- utils

_weekday_ko(dt) == WEEKDAY_KO[Weekday(dt) + 1]

\* dt.replace(day = d)
ReplaceDay(dt, d) ==
    IF d >= 1 /\ d <= DaysInMonth(dt.year, dt.month)
    THEN Some([dt EXCEPT !.day = d])
    ELSE Raise("ValueError", "day is out of range for month")

\* a week anchor that takes n with its sign
_roll_to_week_anchor_Signed(base, anchor0, n) ==
    LET anchor == Upper(IF anchor0 = <<>> THEN T_THIS_WEEK ELSE anchor0)
    IN  IF anchor = T_THIS_WEEK THEN Some(base)
        ELSE IF anchor = T_NEXT_WEEK THEN Some(AddDays(base, 7))
        ELSE IF anchor = T_AFTER_N_WEEK
             THEN LET k == PyInt(IF n = <<>> THEN IntV(1) ELSE n)
                  IN  IF k.ok THEN Some(AddDays(base, 7 * k.v)) ELSE k
        ELSE Raise("ValueError", "Unknown anchor")

_roll_to_week_anchor(base, anchor0, n) ==
    LET anchor == Upper(IF anchor0 = <<>> THEN T_THIS_WEEK ELSE anchor0)
    IN  IF anchor = T_THIS_WEEK THEN Some(base)
        ELSE IF anchor = T_NEXT_WEEK THEN Some(AddDays(base, 7))
        ELSE IF anchor = T_AFTER_N_WEEK
             THEN LET k == PyInt(IF n = <<>> THEN IntV(1) ELSE n)
                  IN  IF k.ok THEN Some(AddDays(base, 7 * Abs(k.v))) ELSE k
        ELSE Raise("ValueError", "Unknown anchor")

\* an n-th weekday that falls back to the last one the month has
_nth_weekday_of_month_Clamped(base, n, weekday) ==
    LET first_weekday    == Weekday([base EXCEPT !.day = 1])
        days_in_month    == DaysInMonth(base.year, base.month)
        delta            == (weekday - first_weekday) % 7
        first_occurrence == 1 + delta
        day              == first_occurrence + (n - 1) * 7
    IN  IF day > days_in_month
        THEN ReplaceDay(base, first_occurrence + ((days_in_month - first_occurrence) \div 7) * 7)
        ELSE ReplaceDay(base, day)

_nth_weekday_of_month(base, n, weekday) ==
    LET first_weekday    == Weekday([base EXCEPT !.day = 1])
        days_in_month    == DaysInMonth(base.year, base.month)
        delta            == (weekday - first_weekday) % 7
        first_occurrence == 1 + delta
        day              == first_occurrence + (n - 1) * 7
    IN  IF day > days_in_month
        THEN Raise("ValueError", "n-th weekday does not exist this month")
        ELSE ReplaceDay(base, day)

_weekday_to_num(label0) ==
    LET label == Strip(label0)
        u     == Upper(label)
    IN  IF Len(label) = 1 /\ \E i \in 1..7 : WEEKDAY_KO[i] = label[1]
        THEN Some((CHOOSE i \in 1..7 : WEEKDAY_KO[i] = label[1]) - 1)
        ELSE IF \E i \in 1..7 : WEEKDAY_EN[i] = u
        THEN Some((CHOOSE i \in 1..7 : WEEKDAY_EN[i] = u) - 1)
        ELSE Raise("ValueError", "weekday parse failed")

\* ------------------------------------------------------ TOKEN resolvers

\* a date_token or time_token dict; a text field is <<>> when missing
Token(type, day, n, value, weekday, anchor, slot) ==
    [type |-> type, day |-> day, n |-> n, value |-> value,
     weekday |-> weekday, anchor |-> anchor, slot |-> slot]
EmptyToken == Token(<<>>, <<>>, <<>>, <<>>, <<>>, <<>>, <<>>)

\* the month after December taken in the same year
NextMonthOf_SameYear(now) ==
    [year |-> now.year, month |-> IF now.month = 12 THEN 1 ELSE now.month + 1]

\* now.month + 1, rolling the year after December
NextMonthOf(now) ==
    LET m == now.month + 1
    IN  [year |-> now.year + (IF m = 13 THEN 1 ELSE 0), month |-> IF m = 13 THEN 1 ELSE m]

\* the week's Monday taken with isoweekday(), which counts Monday as 1
ToWeekdayOfWeek_IsoWeekday(base, weekday) ==
    AddDays(AddDays(base, 0 - (Weekday(base) + 1)), weekday)

\* monday = base - timedelta(days=base.weekday()); monday + timedelta(days=weekday)
ToWeekdayOfWeek(base, weekday) == AddDays(AddDays(base, 0 - Weekday(base)), weekday)

resolve_date_token(now, token) ==
    LET t == Upper(token.type)
    IN  IF t = <<>> THEN Raise("ValueError", "date_token.type required")
        ELSE IF t = T_THIS_MONTH THEN
            IF Truthy(token.day)
            THEN LET d == PyInt(token.day)
                 IN  IF ~d.ok THEN (IF d.exc = "ValueError" THEN Some(now) ELSE d)
                     ELSE LET r == ReplaceDay(now, d.v) IN IF r.ok THEN r ELSE Some(now)
            ELSE Some(now)
        ELSE IF t = T_NEXT_MONTH THEN
            LET ym == NextMonthOf(now)
                rd == IF ~Truthy(token.day) THEN Some(now.day) ELSE PyInt(token.day)
            IN  IF ~rd.ok THEN rd
                ELSE LET max_day    == DaysInMonth(ym.year, ym.month)
                         result_day == IF rd.v < max_day THEN rd.v ELSE max_day
                     IN  ReplaceDay([now EXCEPT !.year = ym.year, !.month = ym.month, !.day = 1],
                                    result_day)
        ELSE IF t = T_SAME_MONTH_DATA THEN
            LET d == PyInt(token.day) IN IF d.ok THEN ReplaceDay(now, d.v) ELSE d
        ELSE IF t = T_AFTER_N_DAY THEN
            LET n == PyInt(PyOr(PyOr(token.n, token.value), IntV(0)))
            IN  IF n.ok THEN Some(AddDays(now, Abs(n.v))) ELSE n
        ELSE IF t \in {T_NEXT_WEEK, T_AFTER_N_WEEK, T_THIS_WEEK} THEN
            LET base == _roll_to_week_anchor(now, t, token.n)
            IN  IF ~base.ok THEN base
                ELSE IF token.weekday # <<>>
                THEN LET weekday == _weekday_to_num(token.weekday)
                     IN  IF weekday.ok THEN Some(ToWeekdayOfWeek(base.v, weekday.v)) ELSE weekday
                ELSE base
        ELSE IF t = T_WEEKDAY_OF THEN
            LET weekday == _weekday_to_num(token.weekday)
            IN  IF ~weekday.ok THEN weekday
                ELSE LET base == _roll_to_week_anchor(now, token.anchor, token.n)
                     IN  IF base.ok THEN Some(ToWeekdayOfWeek(base.v, weekday.v)) ELSE base
        ELSE IF t = T_NTH_WEEKDAY_OF_MONTH THEN
            LET n == PyInt(PyOr(token.n, token.value))
            IN  IF ~n.ok THEN n
                ELSE LET weekday == _weekday_to_num(token.weekday)
                     IN  IF ~weekday.ok THEN weekday
                         ELSE LET anchor == Upper(IF token.anchor = <<>> THEN T_THIS_MONTH
                                                  ELSE token.anchor)
                                  ym     == NextMonthOf(now)
                                  ref    == IF anchor = T_NEXT_MONTH
                                            THEN [now EXCEPT !.year = ym.year,
                                                             !.month = ym.month, !.day = 1]
                                            ELSE [now EXCEPT !.day = 1]
                              IN  _nth_weekday_of_month(ref, n.v, weekday.v)
        ELSE IF t = T_END_OF_MONTH THEN
            Some([now EXCEPT !.day = DaysInMonth(now.year, now.month)])
        ELSE IF t = T_BEGIN_OF_MONTH THEN Some([now EXCEPT !.day = 1])
        ELSE Raise("ValueError", "unknown date_token.type")

\* a time rounded to the nearest minute within its hour
ToHhmm_Rounded(dt) ==
    Pad2(dt.hour) \o <<":">>
    \o Pad2(IF dt.second >= 30 /\ dt.minute < 59 THEN dt.minute + 1 ELSE dt.minute)

\* dt.strftime("%H:%M")
ToHhmm(dt) == Pad2(dt.hour) \o <<":">> \o Pad2(dt.minute)

\* a SLOT looked up with SLOT_TABLE.get(slot): no time for an unknown name
resolve_time_token_SlotGet(now, token) ==
    LET t == Upper(token.type)
    IN  IF t = <<>> THEN Some(<<>>)
        ELSE IF t = T_ABS THEN
            IF token.value # <<>> /\ token.value[1].t # "str"
            THEN Raise("TypeError", "strptime() argument 1 must be str")
            ELSE LET val == IF token.value = <<>> THEN <<>> ELSE token.value[1].s
                 IN  IF ParsesHhmm(val) THEN Some(<<val>>) ELSE Fail
        ELSE IF t = T_SLOT THEN
            LET slot == Upper(token.slot)
            IN  IF slot \notin SlotNames THEN Some(<<>>)
                ELSE Some(<<SLOT_TABLE(slot)>>)
        ELSE IF t = T_AFTER_N_HOUR THEN
            LET n == PyInt(PyOr(PyOr(token.n, token.value), IntV(0)))
            IN  IF n.ok THEN Some(<<ToHhmm(AddSeconds(now, 3600 * Abs(n.v)))>>) ELSE n
        ELSE Some(<<>>)

\* the result is <<>> for None and <<text>> for a time
resolve_time_token(now, token) ==
    LET t == Upper(token.type)
    IN  IF t = <<>> THEN Some(<<>>)
        ELSE IF t = T_ABS THEN
            IF token.value # <<>> /\ token.value[1].t # "str"
            THEN Raise("TypeError", "strptime() argument 1 must be str")
            ELSE LET val == IF token.value = <<>> THEN <<>> ELSE token.value[1].s
                 IN  IF ParsesHhmm(val) THEN Some(<<val>>) ELSE Fail
        ELSE IF t = T_SLOT THEN
            LET slot == Upper(token.slot)
            IN  IF slot \notin SlotNames THEN Raise("ValueError", "unknown slot")
                ELSE Some(<<SLOT_TABLE(slot)>>)
        ELSE IF t = T_AFTER_N_HOUR THEN
            LET n == PyInt(PyOr(PyOr(token.n, token.value), IntV(0)))
            IN  IF n.ok THEN Some(<<ToHhmm(AddSeconds(now, 3600 * Abs(n.v)))>>) ELSE n
        ELSE Some(<<>>)

\* ------------------------------------------------------------- _now()

IsoDate(s) ==
    /\ Len(s) = 10 /\ AllDigits(SubSeq(s, 1, 4)) /\ s[5] = "-" /\ AllDigits(SubSeq(s, 6, 7))
    /\ s[8] = "-" /\ AllDigits(SubSeq(s, 9, 10))
    /\ ToInt(SubSeq(s, 1, 4)) >= 1 /\ ToInt(SubSeq(s, 6, 7)) \in 1..12
    /\ ToInt(SubSeq(s, 9, 10)) >= 1
    /\ ToInt(SubSeq(s, 9, 10)) <= DaysInMonth(ToInt(SubSeq(s, 1, 4)), ToInt(SubSeq(s, 6, 7)))
\* HH:MM:SS
IsoTime(s) ==
    /\ Len(s) = 8 /\ AllDigits(SubSeq(s, 1, 2)) /\ s[3] = ":" /\ AllDigits(SubSeq(s, 4, 5))
    /\ s[6] = ":" /\ AllDigits(SubSeq(s, 7, 8))
    /\ ToInt(SubSeq(s, 1, 2)) <= 23 /\ ToInt(SubSeq(s, 4, 5)) <= 59 /\ ToInt(SubSeq(s, 7, 8)) <= 59
\* +HH:MM or -HH:MM
IsoOffset(s) ==
    /\ Len(s) = 6 /\ s[1] \in {"+", "-"} /\ AllDigits(SubSeq(s, 2, 3)) /\ s[4] = ":"
    /\ AllDigits(SubSeq(s, 5, 6)) /\ ToInt(SubSeq(s, 2, 3)) <= 23 /\ ToInt(SubSeq(s, 5, 6)) <= 59

\* an anchor with an offset converted to UTC before the offset is dropped
FromIsoFormat_ToUtc(s) ==
    IF Len(s) \in {10, 19, 25} /\ IsoDate(SubSeq(s, 1, 10))
       /\ (Len(s) >= 19 => IsoTime(SubSeq(s, 12, 19)))
       /\ (Len(s) = 25 => IsoOffset(SubSeq(s, 20, 25)))
    THEN LET dt  == DateTime(ToInt(SubSeq(s, 1, 4)), ToInt(SubSeq(s, 6, 7)),
                             ToInt(SubSeq(s, 9, 10)),
                             IF Len(s) = 10 THEN 0 ELSE ToInt(SubSeq(s, 12, 13)),
                             IF Len(s) = 10 THEN 0 ELSE ToInt(SubSeq(s, 15, 16)),
                             IF Len(s) = 10 THEN 0 ELSE ToInt(SubSeq(s, 18, 19)))
             off == IF Len(s) < 25 THEN 0
                    ELSE (IF s[20] = "-" THEN -60 ELSE 60)
                         * (60 * ToInt(SubSeq(s, 21, 22)) + ToInt(SubSeq(s, 24, 25)))
         IN  Some(AddSeconds(dt, 0 - off))
    ELSE Raise("ValueError", "Invalid isoformat string")

\* datetime.fromisoformat(s).replace(tzinfo=None), for the texts of the forms
\* YYYY-MM-DD, YYYY-MM-DDTHH:MM:SS and YYYY-MM-DDTHH:MM:SS+HH:MM; the offset
\* is dropped and the clock reading kept
FromIsoFormat(s) ==
    IF Len(s) \in {10, 19, 25} /\ IsoDate(SubSeq(s, 1, 10))
       /\ (Len(s) >= 19 => IsoTime(SubSeq(s, 12, 19)))
       /\ (Len(s) = 25 => IsoOffset(SubSeq(s, 20, 25)))
    THEN Some(DateTime(ToInt(SubSeq(s, 1, 4)), ToInt(SubSeq(s, 6, 7)), ToInt(SubSeq(s, 9, 10)),
                       IF Len(s) = 10 THEN 0 ELSE ToInt(SubSeq(s, 12, 13)),
                       IF Len(s) = 10 THEN 0 ELSE ToInt(SubSeq(s, 15, 16)),
                       IF Len(s) = 10 THEN 0 ELSE ToInt(SubSeq(s, 18, 19))))
    ELSE Raise("ValueError", "Invalid isoformat string")

\* _now(anchor_now), with utcnow the reading of the wall clock
_now(anchor_now, utcnow) ==
    IF anchor_now # <<>> /\ FromIsoFormat(anchor_now).ok
    THEN FromIsoFormat(anchor_now).v
    ELSE utcnow

\* ---------------------------------------------------------- dedup helpers

\* hashlib.sha256(base).hexdigest(): the digest is kept symbolic, a marker
\* followed by the text it digests, so that equal digests mean equal texts
Sha256Hex(base) == <<"sha256:">> \o base

_make_fingerprint(content, date, time_str) ==
    Sha256Hex(content \o <<"|">> \o date \o <<"|">>
              \o (IF time_str = <<>> THEN <<>> ELSE time_str[1]))

\* the age of an entry taken the wrong way round
Age_Swapped(now_ts, ts) == ts - now_ts

\* now_ts - ts: the age of an entry, as the purge loop and the lookup compute it
Age(now_ts, ts) == now_ts - ts

\* a purge that drops nothing
Purge_Nothing(recent, now_ts) == recent

\* a purge that already drops an entry whose age equals the TTL
Purge_AtTtl(recent, now_ts) ==
    [k \in {kk \in DOMAIN recent : Age(now_ts, recent[kk]) < DEDUP_TTL_SEC} |-> recent[k]]

\* the purge loop of _is_duplicate
Purge(recent, now_ts) ==
    [k \in {kk \in DOMAIN recent : ~(Age(now_ts, recent[kk]) > DEDUP_TTL_SEC)} |-> recent[k]]

\* a lookup that no longer matches an entry whose age equals the TTL
Seen_BeforeTtl(recent, key, now_ts) ==
    key \in DOMAIN recent /\ Age(now_ts, recent[key]) < DEDUP_TTL_SEC

\* key in _recent_keys and (now_ts - _recent_keys[key] <= DEDUP_TTL_SEC)
Seen(recent, key, now_ts) ==
    key \in DOMAIN recent /\ Age(now_ts, recent[key]) <= DEDUP_TTL_SEC

\* _recent_keys[key] = now_ts
Remember(recent, key, now_ts) ==
    [k \in (DOMAIN recent) \cup {key} |-> IF k = key THEN now_ts ELSE recent[k]]

\* a check that refreshes the timestamp on every sight of the key
AfterCheck_Refresh(recent, key, now_ts, dup) == Remember(recent, key, now_ts)

\* a check that records nothing
AfterCheck_Forget(recent, key, now_ts, dup) == recent

\* what _is_duplicate leaves in the store once the lookup has answered: a
\* duplicate returns at once, any other key is recorded with the clock reading
\* a check that keeps the newest key alone
AfterCheck_Reset(recent, key, now_ts, dup) ==
    IF dup THEN recent ELSE Remember(<<>>, key, now_ts)

AfterCheck(recent, key, now_ts, dup) ==
    IF dup THEN recent ELSE Remember(recent, key, now_ts)

\* a key that ignores idempotency_key
DedupKey_Fingerprint(idem, fingerprint) == fingerprint

\* key = idem or fingerprint
DedupKey(idem, fingerprint) == IF idem # <<>> THEN idem ELSE fingerprint

\* key[:8]
Prefix8(key) == SubSeq(key, 1, IF Len(key) < 8 THEN Len(key) ELSE 8)

\* ---------------------------------------------------------------- state

VARIABLES
    clock,          \* seconds of process time elapsed: time.time() and utcnow() read it
    _recent_keys,   \* the dedup store: key -> timestamp
    db,             \* the rows of table schedules, in insertion order
    calls,          \* per call of the tool: its arguments, position, locals and response
    running,        \* the call the event loop is executing, 0 when it is idle
    env             \* the environment: the requests clients send, and whether sqlite may fail

vars == <<clock, _recent_keys, db, calls, running, env>>

\* the wall clock when the process starts (a Friday)
BootTime == DateTime(2024, 1, 5, 8, 4, 30)
\* datetime.utcnow()
UtcNow(t) == AddSeconds(BootTime, t)

\* seconds the clock may advance between two steps, and the last reading modelled
TickSteps == {45, 46}
MaxClock == 92
\* calls of the tool in a run of the mixed, the burst and the shape environment
MaxCalls == 2
MaxBurst == 3
MaxShape == 2
\* calls of the tool in a run that resolves one family of tokens
MaxTokenCalls == 1
\* the offsets n of AFTER_N_DAY and AFTER_N_HOUR tokens run over -MaxN..MaxN
MaxN == 3
\* the days a NEXT_MONTH token asks for run over 28..MaxDay
MaxDay == 32
\* the occurrences n an NTH_WEEKDAY_OF_MONTH token asks for run over 1..MaxNth
MaxNth == 5

\* arguments of a call; a text field is <<>> when missing or empty
When(mode, date, time, date_token, time_token) ==
    [isdict |-> TRUE, mode |-> mode, date |-> date, time |-> time,
     date_token |-> date_token, time_token |-> time_token]
NotADict == [isdict |-> FALSE, mode |-> <<>>, date |-> <<>>, time |-> <<>>,
             date_token |-> EmptyToken, time_token |-> EmptyToken]
Args(content, when, anchor_now, idem) ==
    [isdict |-> TRUE, content |-> content, when |-> when,
     anchor_now |-> anchor_now, idempotency_key |-> idem]
NoArgs == [isdict |-> FALSE, content |-> <<>>, when |-> NotADict,
           anchor_now |-> <<>>, idempotency_key |-> <<>>]

ZeroDT == DateTime(1, 1, 1, 0, 0, 0)
NO_TIME == <<"(no time)">>
NoResp == [kind |-> "", exc |-> "", key8 |-> <<>>, date |-> <<>>, time |-> <<>>,
           content |-> <<>>, dow |-> "", row_id |-> 0, total |-> 0]
Resp(kind) == [NoResp EXCEPT !.kind = kind]
\* the reply of call_tool's except branch
ServerException(exc) == [NoResp EXCEPT !.kind = "server_exception", !.exc = exc]

NewCall == [pc |-> "IDLE", req |-> 0, content |-> <<>>, mode |-> <<>>, now |-> ZeroDT,
            date |-> <<>>, time_str |-> <<>>, dt_date |-> ZeroDT, key |-> <<>>,
            now_ts |-> 0, dup |-> FALSE, resp |-> NoResp,
            \* history: the store and the dedup store when the handler started,
            \* whether the lookup ran, what sqlite did and whether a row was written
            db0 |-> <<>>, recent0 |-> <<>>, looked |-> FALSE, store |-> "", wrote |-> FALSE]

\* a handler that awaits between the lookup and the insert
AwaitPoints_AfterLookup == {"LOOKED_UP"}

\* positions at which a handler awaits and the event loop may run another
\* call: handle_schedule_save contains no await
AwaitPoints == {}

\* ------------------------------------------------------------- requests

C_x == <<"x">>
C_x_padded == <<" ", "x", " ">>
C_y == <<"y">>
C_blank == <<" ", " ">>
D_2024_01_05 == <<"2", "0", "2", "4", "-", "0", "1", "-", "0", "5">>
D_2024_1_5 == <<"2", "0", "2", "4", "-", "1", "-", "5">>
D_2024_02_30 == <<"2", "0", "2", "4", "-", "0", "2", "-", "3", "0">>
H_09_00 == <<"0", "9", ":", "0", "0">>
H_24_00 == <<"2", "4", ":", "0", "0">>
K_req == <<"r", "e", "q", "-", "0", "0", "0", "0", "1">>
M_absolute == <<"a", "b", "s", "o", "l", "u", "t", "e">>
M_weekly == <<"W", "E", "E", "K", "L", "Y">>
A_2024_03_31 == <<"2", "0", "2", "4", "-", "0", "3", "-", "3", "1", "T",
                  "1", "0", ":", "0", "0", ":", "0", "0">>
A_garbage == <<"s", "o", "o", "n">>

TokThisMonth == [EmptyToken EXCEPT !.type = T_THIS_MONTH]
TokNextMonth == [EmptyToken EXCEPT !.type = T_NEXT_MONTH]
TokBogus == [EmptyToken EXCEPT !.type = <<"S", "O", "M", "E", "D", "A", "Y">>]
TokMorning == [EmptyToken EXCEPT !.type = T_SLOT, !.slot = T_MORNING]
TokNoon == [EmptyToken EXCEPT !.type = T_SLOT, !.slot = <<"N", "O", "O", "N">>]

Absolute(date, time) == When(T_ABSOLUTE, date, time, EmptyToken, EmptyToken)
ByToken(date_token, time_token) == When(T_TOKEN, <<>>, <<>>, date_token, time_token)

R_abs == Args(C_x, Absolute(D_2024_01_05, H_09_00), <<>>, <<>>)
R_abs_padded == Args(C_x_padded, Absolute(D_2024_01_05, H_09_00), A_garbage, <<>>)
R_abs_short == Args(C_x, Absolute(D_2024_1_5, H_09_00), <<>>, <<>>)
R_token == Args(C_x, ByToken(TokThisMonth, TokMorning), <<>>, <<>>)
R_anchored == Args(C_x, ByToken(TokNextMonth, EmptyToken), A_2024_03_31, <<>>)
R_idem_x == Args(C_x, Absolute(D_2024_01_05, H_09_00), <<>>, K_req)
R_idem_y == Args(C_y, Absolute(D_2024_01_05, <<>>), <<>>, K_req)
R_lower == Args(C_y, When(M_absolute, D_2024_01_05, <<>>, EmptyToken, EmptyToken), <<>>, <<>>)
R_blank == Args(C_blank, Absolute(D_2024_01_05, H_09_00), <<>>, K_req)
R_no_content == Args(<<>>, Absolute(D_2024_01_05, H_09_00), <<>>, <<>>)
R_bad_mode == Args(C_x, When(M_weekly, D_2024_01_05, H_09_00, TokThisMonth, TokMorning), <<>>, <<>>)
R_no_mode == Args(C_x, When(<<>>, D_2024_01_05, H_09_00, TokThisMonth, TokMorning), <<>>, K_req)
R_when_not_dict == Args(C_x, NotADict, <<>>, <<>>)
R_not_dict == NoArgs
R_no_date == Args(C_x, Absolute(<<>>, H_09_00), <<>>, <<>>)
R_bad_date == Args(C_x, Absolute(D_2024_02_30, H_09_00), <<>>, K_req)
R_bad_time == Args(C_x, Absolute(D_2024_01_05, H_24_00), <<>>, <<>>)
R_bad_token == Args(C_x, ByToken(TokBogus, TokMorning), <<>>, <<>>)
R_bad_slot == Args(C_x, ByToken(TokThisMonth, TokNoon), <<>>, K_req)

\* ------------------------------------------- families of TOKEN requests

\* the elements of a sequence
Range(q) == {q[j] : j \in 1..Len(q)}
\* the integers from lo to hi, in order
Ints(lo, hi) == [j \in 1..(hi - lo + 1) |-> lo + j - 1]
\* every pair of an element of p and an element of q
Pairs(p, q) ==
    [j \in 1..(Len(p) * Len(q)) |-> <<p[((j - 1) \div Len(q)) + 1], q[((j - 1) % Len(q)) + 1]>>]

\* the anchor instants clients send: the last day of a 31-day month (a
\* Sunday), a Monday late in the evening, a Monday at the end of December, the
\* last day of January before a 28-day February, and a leap day
AnchorSeq ==
    <<DateTime(2024, 3, 31, 10, 0, 0), DateTime(2024, 1, 29, 23, 30, 15),
      DateTime(2024, 12, 30, 12, 45, 0), DateTime(2023, 1, 31, 6, 5, 59),
      DateTime(2024, 2, 29, 0, 0, 0)>>
Anchors == Range(AnchorSeq)
\* the anchor_now text of an instant: YYYY-MM-DDTHH:MM:SS
IsoText(dt) ==
    ToDateString(dt) \o <<"T">> \o Pad2(dt.hour) \o <<":">> \o Pad2(dt.minute)
    \o <<":">> \o Pad2(dt.second)
\* a TOKEN request anchored at instant a
TokenRequest(a, date_token, time_token) ==
    Args(C_x, ByToken(date_token, time_token), IsoText(a), <<>>)

\* token types no resolver knows, and requests that carry them
T_SOMEDAY == <<"S", "O", "M", "E", "D", "A", "Y">>
T_LATER == <<"L", "A", "T", "E", "R">>
T_later == <<"l", "a", "t", "e", "r">>
TypeRequests ==
    LET p == Pairs(Pairs(AnchorSeq, <<T_THIS_MONTH, T_END_OF_MONTH, T_SOMEDAY>>),
                   <<T_SLOT, T_LATER, T_later>>)
    IN  [j \in 1..Len(p) |->
            TokenRequest(p[j][1][1], [EmptyToken EXCEPT !.type = p[j][1][2]],
                         [EmptyToken EXCEPT !.type = p[j][2], !.slot = T_NIGHT])]

\* requests in both modes that reach the store, with times written with and
\* without leading zeros
H_9_5 == <<"9", ":", "5">>
H_23_59 == <<"2", "3", ":", "5", "9">>
D_2024_02_29 == <<"2", "0", "2", "4", "-", "0", "2", "-", "2", "9">>
RowRequests ==
    LET p == Pairs(<<D_2024_01_05, D_2024_1_5, D_2024_02_29>>, <<<<>>, H_09_00, H_9_5, H_23_59>>)
        q == Pairs(AnchorSeq,
                   <<EmptyToken, TokMorning,
                     [EmptyToken EXCEPT !.type = T_ABS, !.value = StrV(H_9_5)],
                     [EmptyToken EXCEPT !.type = T_ABS, !.value = StrV(H_23_59)],
                     [EmptyToken EXCEPT !.type = T_AFTER_N_HOUR, !.n = IntV(1)]>>)
    IN  [j \in 1..Len(p) |-> Args(C_y, Absolute(p[j][1], p[j][2]), <<>>, <<>>)]
        \o [j \in 1..Len(q) |->
               TokenRequest(q[j][1], [EmptyToken EXCEPT !.type = T_END_OF_MONTH], q[j][2])]

\* AFTER_N_DAY with offset n, from every anchor
DayRequests ==
    LET p == Pairs(AnchorSeq, Ints(0 - MaxN, MaxN))
    IN  [j \in 1..Len(p) |->
            TokenRequest(p[j][1], [EmptyToken EXCEPT !.type = T_AFTER_N_DAY, !.n = IntV(p[j][2])],
                         EmptyToken)]

\* NEXT_MONTH from every anchor: without a day, with day 1, with the days
\* around the month ends, and with a day written as text
T_31 == <<"3", "1">>
MonthRequests ==
    LET days == <<<<>>, IntV(1), StrV(T_31)>> \o [j \in 1..(MaxDay - 27) |-> IntV(27 + j)]
        p    == Pairs(AnchorSeq, days)
    IN  [j \in 1..Len(p) |->
            TokenRequest(p[j][1], [EmptyToken EXCEPT !.type = T_NEXT_MONTH, !.day = p[j][2]],
                         EmptyToken)]

\* NTH_WEEKDAY_OF_MONTH for Monday and Thursday (the latter by its Korean
\* label), in the anchor's month and in the month after it, from the anchors
\* of January and of December 2024
T_MON == <<"M", "O", "N">>
T_mok == <<"mok">>
NthRequests ==
    LET p == Pairs(Pairs(SubSeq(AnchorSeq, 2, 3), Ints(1, MaxNth)),
                   Pairs(<<T_MON, T_mok>>, <<<<>>, T_NEXT_MONTH>>))
    IN  [j \in 1..Len(p) |->
            TokenRequest(p[j][1][1],
                         [EmptyToken EXCEPT !.type = T_NTH_WEEKDAY_OF_MONTH,
                                            !.n = IntV(p[j][1][2]), !.weekday = p[j][2][1],
                                            !.anchor = p[j][2][2]],
                         EmptyToken)]

\* WEEKDAY_OF for Monday (by both labels) and Thursday, in the week after the
\* anchor's and in the anchor's own week, from every anchor
T_wol == <<"wol">>
WeekRequests ==
    LET p == Pairs(AnchorSeq, Pairs(<<T_MON, T_wol, T_mok>>, <<T_NEXT_WEEK, <<>>>>))
    IN  [j \in 1..Len(p) |->
            TokenRequest(p[j][1],
                         [EmptyToken EXCEPT !.type = T_WEEKDAY_OF, !.weekday = p[j][2][1],
                                            !.anchor = p[j][2][2]],
                         EmptyToken)]

\* SLOT with the four names of the table, one of them also in lower case, a
\* name outside the table and no name, from every anchor
T_afternoon == <<"a", "f", "t", "e", "r", "n", "o", "o", "n">>
T_NOON == <<"N", "O", "O", "N">>
SlotRequests ==
    LET p == Pairs(AnchorSeq,
                   <<T_MORNING, T_AFTERNOON, T_EVENING, T_NIGHT, T_afternoon, T_NOON, <<>>>>)
    IN  [j \in 1..Len(p) |->
            TokenRequest(p[j][1], TokThisMonth,
                         [EmptyToken EXCEPT !.type = T_SLOT, !.slot = p[j][2]])]

\* AFTER_N_HOUR with offset n, small or of a day and more, from the anchors
\* at 23:30:15, 12:45:00 and 06:05:59
HourRequests ==
    LET p == Pairs(SubSeq(AnchorSeq, 2, 4), Ints(0 - MaxN, MaxN) \o <<25, -49>>)
    IN  [j \in 1..Len(p) |->
            TokenRequest(p[j][1], TokThisMonth,
                         [EmptyToken EXCEPT !.type = T_AFTER_N_HOUR, !.n = IntV(p[j][2])])]

\* anchor_now texts: absent, three that do not parse (a word, a blank, a day
\* the month does not have) and four that do (with and without an offset,
\* and a date alone)
A_blank == <<" ">>
A_2024_02_30 == D_2024_02_30 \o <<"T", "1", "0", ":", "0", "0", ":", "0", "0">>
A_plus_09 == A_2024_03_31 \o <<"+", "0", "9", ":", "0", "0">>
A_minus_05 == IsoText(DateTime(2024, 12, 31, 23, 59, 59)) \o <<"-", "0", "5", ":", "0", "0">>
AnchorTexts ==
    <<<<>>, A_garbage, A_blank, A_2024_02_30, A_2024_03_31, A_plus_09, A_minus_05, D_2024_02_29>>
\* requests that are well formed but for their anchor_now
AnchoredRequests ==
    LET whens == <<ByToken([EmptyToken EXCEPT !.type = T_BEGIN_OF_MONTH], EmptyToken),
                   ByToken([EmptyToken EXCEPT !.type = T_BEGIN_OF_MONTH],
                           [EmptyToken EXCEPT !.type = T_AFTER_N_HOUR, !.n = IntV(1)]),
                   Absolute(D_2024_02_29, H_23_59)>>
        p     == Pairs(AnchorTexts, whens)
    IN  [j \in 1..Len(p) |-> Args(C_x, p[j][2], p[j][1], <<>>)]

\* AFTER_N_DAY with value 5 and with n absent, an integer or the text "0",
\* from the first two anchors
T_0 == <<"0">>
DayValueRequests ==
    LET p == Pairs(SubSeq(AnchorSeq, 1, 2), <<<<>>, IntV(0), IntV(2), IntV(-1), StrV(T_0)>>)
    IN  [j \in 1..Len(p) |->
            TokenRequest(p[j][1],
                         [EmptyToken EXCEPT !.type = T_AFTER_N_DAY, !.n = p[j][2],
                                            !.value = IntV(5)],
                         EmptyToken)]

\* THIS_WEEK, NEXT_WEEK and AFTER_N_WEEK (n absent, 0 and negative), without
\* a weekday, with Monday, with Sunday by its Korean label and with a label
\* that names no weekday, from a Sunday and from a Monday at the year's end
T_il == <<"il">>
T_XYZ == <<"X", "Y", "Z">>
WeekTypeRequests ==
    LET kinds == <<<<T_THIS_WEEK, <<>>>>, <<T_NEXT_WEEK, <<>>>>, <<T_AFTER_N_WEEK, <<>>>>,
                   <<T_AFTER_N_WEEK, IntV(0)>>, <<T_AFTER_N_WEEK, IntV(0 - MaxN)>>>>
        p     == Pairs(Pairs(<<AnchorSeq[1], AnchorSeq[3]>>, kinds), <<<<>>, T_MON, T_il, T_XYZ>>)
    IN  [j \in 1..Len(p) |->
            TokenRequest(p[j][1][1],
                         [EmptyToken EXCEPT !.type = p[j][1][2][1], !.n = p[j][1][2][2],
                                            !.weekday = p[j][2]],
                         EmptyToken)]

\* THIS_MONTH without a day and with a day that is zero, negative, inside the
\* month, past its end, a text that is or is not a number, and an array,
\* from anchors in March, January and February
T_abc == <<"a", "b", "c">>
ThisMonthRequests ==
    LET days == <<<<>>, IntV(0), IntV(-1), IntV(1), IntV(15), IntV(30), IntV(31), IntV(MaxDay),
                  StrV(T_abc), StrV(T_31), ListV>>
        p    == Pairs(<<AnchorSeq[1], AnchorSeq[4], AnchorSeq[5]>>, days)
    IN  [j \in 1..Len(p) |->
            TokenRequest(p[j][1], [EmptyToken EXCEPT !.type = T_THIS_MONTH, !.day = p[j][2]],
                         EmptyToken)]

GeneratedRequests ==
    TypeRequests \o RowRequests \o DayRequests \o MonthRequests \o NthRequests
    \o WeekRequests \o SlotRequests \o HourRequests \o AnchoredRequests
    \o DayValueRequests \o WeekTypeRequests \o ThisMonthRequests

NamedRequests ==
    <<R_abs, R_token, R_idem_x, R_idem_y, R_abs_padded, R_abs_short, R_anchored, R_lower,
      R_blank, R_no_content, R_bad_mode, R_no_mode, R_when_not_dict, R_not_dict,
      R_no_date, R_bad_date, R_bad_time, R_bad_token, R_bad_slot>>
\* the requests clients send; a call holds the index of its request
RequestTable == NamedRequests \o GeneratedRequests
\* a request that occurs twice in the table is sent by its first index
IndexOf(rs) ==
    {r \in 1..Len(RequestTable) :
        RequestTable[r] \in rs /\ \A q \in 1..(r - 1) : RequestTable[q] # RequestTable[r]}
\* well-formed requests with some malformed ones among them
MixedRequests ==
    IndexOf({R_abs, R_token, R_idem_x, R_idem_y, R_abs_padded, R_abs_short, R_anchored, R_lower,
             R_no_mode, R_bad_token, R_bad_slot})
\* requests that are sent again after the store has failed
RetryRequests ==
    IndexOf({R_abs, R_abs_short, R_token, R_idem_x, R_idem_y, R_lower, R_no_mode, R_bad_slot})
\* rejected requests and the requests that correct them
ResubmitRequests ==
    IndexOf({R_no_mode, R_bad_date, R_bad_time, R_bad_token, R_bad_slot, R_idem_x, R_abs, R_token})
\* requests with the same key
BurstRequests == IndexOf({R_abs, R_token, R_idem_x, R_idem_y})
\* every malformed request, with some well-formed ones among them
ShapeRequests ==
    IndexOf({R_blank, R_no_content, R_bad_mode, R_no_mode, R_when_not_dict, R_not_dict,
             R_no_date, R_bad_date, R_bad_time, R_bad_token, R_bad_slot,
             R_abs, R_lower, R_token})

\* the indices of the families
TypeIndex == IndexOf(Range(TypeRequests))
RowIndex == IndexOf(Range(RowRequests))
DayIndex == IndexOf(Range(DayRequests) \cup Range(DayValueRequests))
MonthIndex == IndexOf(Range(MonthRequests))
NthIndex == IndexOf(Range(NthRequests))
WeekIndex == IndexOf(Range(WeekRequests))
HourIndex == IndexOf(Range(HourRequests))
AnchoredIndex == IndexOf(Range(AnchoredRequests))
WeekTypeIndex == IndexOf(Range(WeekTypeRequests))
\* the ABSOLUTE requests of the anchor_now family
AbsoluteAnchoredIndex == IndexOf({r \in Range(AnchoredRequests) : r.when.mode = T_ABSOLUTE})
ThisMonthIndex == IndexOf(Range(ThisMonthRequests))
\* the SLOT family, with the two named SLOT requests that carry no anchor
SlotIndex == IndexOf(Range(SlotRequests) \cup {R_token, R_bad_slot})

Requests(e) == CASE e.requests = "burst" -> BurstRequests
                 [] e.requests = "types" -> TypeIndex
                 [] e.requests = "rows" -> RowIndex
                 [] e.requests = "days" -> DayIndex
                 [] e.requests = "months" -> MonthIndex
                 [] e.requests = "nth" -> NthIndex
                 [] e.requests = "weeks" -> WeekIndex
                 [] e.requests = "slots" -> SlotIndex
                 [] e.requests = "hours" -> HourIndex
                 [] e.requests = "anchors" -> AnchoredIndex
                 [] e.requests = "weektypes" -> WeekTypeIndex
                 [] e.requests = "thismonth" -> ThisMonthIndex
                 [] e.requests = "retry" -> RetryRequests
                 [] e.requests = "resubmit" -> ResubmitRequests
                 [] e.requests = "absolute" -> AbsoluteAnchoredIndex
                 [] e.requests = "shape" -> ShapeRequests
                 [] OTHER -> MixedRequests
\* the arguments of call c
ArgsOf(c) == IF c.req = 0 THEN NoArgs ELSE RequestTable[c.req]
\* the environments that send one family of TOKEN requests
TokenFamilies == {"types", "rows", "days", "months", "nth", "weeks", "slots",
                  "hours", "anchors", "weektypes",
                  "thismonth"}
NumCalls(e) == CASE e.requests = "burst" -> MaxBurst
                 [] e.requests = "shape" -> MaxShape
                 [] e.requests \in TokenFamilies -> MaxTokenCalls
                 [] OTHER -> MaxCalls
\* what the two sqlite calls of a non-duplicate call may do: both succeed, the
\* INSERT raises, or the INSERT commits and SELECT COUNT raises
StoreOutcomes(e) == IF e.store = "reliable" THEN {"ok"}
                    ELSE {"ok", "insert_raises", "count_raises"}

\* ---------------------------------------------------------------- steps

Return(c, resp) == [c EXCEPT !.pc = "RETURNED", !.resp = resp]

\* call i, which the event loop is executing, moves to c; the loop is free
\* again when the call has returned or awaits
Step(i, c) ==
    /\ calls' = [calls EXCEPT ![i] = c]
    /\ running' = IF c.pc = "RETURNED" \/ c.pc \in AwaitPoints THEN 0 ELSE i

\* the event loop starts the handler of a new call, or resumes one that awaits
Dispatch(i) ==
    /\ running = 0
    /\ i \in 1..NumCalls(env)
    /\ IF calls[i].pc = "IDLE"
       THEN /\ \A j \in 1..(i - 1) : calls[j].pc # "IDLE"
            /\ \E r \in Requests(env) :
                  calls' = [calls EXCEPT ![i] = [NewCall EXCEPT !.pc = "RECEIVED", !.req = r,
                                                               !.db0 = db, !.recent0 = _recent_keys]]
       ELSE /\ calls[i].pc \in AwaitPoints
            /\ UNCHANGED calls
    /\ running' = i
    /\ UNCHANGED <<clock, _recent_keys, db, env>>

\* lines 311-323: the shape of the arguments
ValidateResult(c) ==
    LET a       == ArgsOf(c)
        content == Strip(a.content)
        mode    == Upper(a.when.mode)
    IN  IF ~a.isdict THEN Return(c, Resp("invalid_arguments"))
        ELSE IF content = <<>> \/ ~a.when.isdict THEN Return(c, Resp("content_when_required"))
        ELSE IF mode \notin {T_ABSOLUTE, T_TOKEN} THEN Return(c, Resp("mode_not_allowed"))
        ELSE [c EXCEPT !.pc = "VALIDATED", !.content = content, !.mode = mode]

Validate(i) ==
    /\ running = i /\ calls[i].pc = "RECEIVED"
    /\ Step(i, ValidateResult(calls[i]))
    /\ UNCHANGED <<clock, _recent_keys, db, env>>

\* line 325
Anchor(i) ==
    /\ running = i /\ calls[i].pc = "VALIDATED"
    /\ Step(i, [calls[i] EXCEPT !.pc = "ANCHORED",
                                !.now = _now(ArgsOf(calls[i]).anchor_now, UtcNow(clock))])
    /\ UNCHANGED <<clock, _recent_keys, db, env>>

\* lines 328-333 and 338 (ABSOLUTE), line 340 (TOKEN)
ResolveDateResult(c) ==
    IF c.mode = T_ABSOLUTE
    THEN LET date == Strip(ArgsOf(c).when.date)
         IN  IF date = <<>> THEN Return(c, Resp("date_required"))
             ELSE IF ~ParseYmd(date).ok THEN Return(c, Resp("format_error"))
             ELSE [c EXCEPT !.pc = "DATE_RESOLVED", !.date = date, !.dt_date = ParseYmd(date).v]
    ELSE LET r == resolve_date_token(c.now, ArgsOf(c).when.date_token)
         IN  IF ~r.ok THEN Return(c, ServerException(r.exc))
             ELSE [c EXCEPT !.pc = "DATE_RESOLVED", !.dt_date = r.v]

\* a handler that caches the idempotency_key before it resolves the date
ResolveDate_RemembersKey(i) ==
    /\ running = i /\ calls[i].pc = "ANCHORED"
    /\ Step(i, ResolveDateResult(calls[i]))
    /\ _recent_keys' = IF ArgsOf(calls[i]).idempotency_key # <<>>
                       THEN Remember(_recent_keys, ArgsOf(calls[i]).idempotency_key, clock)
                       ELSE _recent_keys
    /\ UNCHANGED <<clock, db, env>>

ResolveDate(i) ==
    /\ running = i /\ calls[i].pc = "ANCHORED"
    /\ Step(i, ResolveDateResult(calls[i]))
    /\ UNCHANGED <<clock, _recent_keys, db, env>>

\* a time resolution that carries on without a time when the time is wrong
ResolveTimeResult_Swallow(c) ==
    IF c.mode = T_ABSOLUTE
    THEN LET t == Strip(ArgsOf(c).when.time)
         IN  [c EXCEPT !.pc = "TIME_RESOLVED",
                       !.time_str = IF t = <<>> \/ ~ParsesHhmm(t) THEN <<>> ELSE <<t>>]
    ELSE LET r == resolve_time_token(c.now, ArgsOf(c).when.time_token)
         IN  [c EXCEPT !.pc = "TIME_RESOLVED", !.time_str = IF r.ok THEN r.v ELSE <<>>,
                       !.date = ToDateString(c.dt_date)]

\* lines 329 and 334-337 (ABSOLUTE), lines 341-342 (TOKEN)
ResolveTimeResult(c) ==
    IF c.mode = T_ABSOLUTE
    THEN LET t == Strip(ArgsOf(c).when.time)
         IN  IF t # <<>> /\ ~ParsesHhmm(t) THEN Return(c, Resp("format_error"))
             ELSE [c EXCEPT !.pc = "TIME_RESOLVED", !.time_str = IF t = <<>> THEN <<>> ELSE <<t>>]
    ELSE LET r == resolve_time_token(c.now, ArgsOf(c).when.time_token)
         IN  IF ~r.ok THEN Return(c, ServerException(r.exc))
             ELSE [c EXCEPT !.pc = "TIME_RESOLVED", !.time_str = r.v,
                            !.date = ToDateString(c.dt_date)]

ResolveTime(i) ==
    /\ running = i /\ calls[i].pc = "DATE_RESOLVED"
    /\ Step(i, ResolveTimeResult(calls[i]))
    /\ UNCHANGED <<clock, _recent_keys, db, env>>

\* a handler that fingerprints the day of the reference time
Sweep_AnchorDay(i) ==
    /\ running = i /\ calls[i].pc = "TIME_RESOLVED"
    /\ LET c           == calls[i]
           fingerprint == _make_fingerprint(c.content, ToDateString(c.now), c.time_str)
           idem        == ArgsOf(c).idempotency_key
       IN  Step(i, [c EXCEPT !.pc = "SWEPT", !.now_ts = clock,
                             !.key = DedupKey(idem, fingerprint)])
    /\ _recent_keys' = Purge(_recent_keys, clock)
    /\ UNCHANGED <<clock, db, env>>

\* lines 345-346 and 287-291: the key, the clock reading and the purge
Sweep(i) ==
    /\ running = i /\ calls[i].pc = "TIME_RESOLVED"
    /\ LET c           == calls[i]
           fingerprint == _make_fingerprint(c.content, c.date, c.time_str)
           idem        == ArgsOf(c).idempotency_key
       IN  Step(i, [c EXCEPT !.pc = "SWEPT", !.now_ts = clock,
                             !.key = DedupKey(idem, fingerprint)])
    /\ _recent_keys' = Purge(_recent_keys, clock)
    /\ UNCHANGED <<clock, db, env>>

\* line 292
Lookup(i) ==
    /\ running = i /\ calls[i].pc = "SWEPT"
    /\ Step(i, [calls[i] EXCEPT !.pc = "LOOKED_UP", !.looked = TRUE,
                                !.dup = Seen(_recent_keys, calls[i].key, calls[i].now_ts)])
    /\ UNCHANGED <<clock, _recent_keys, db, env>>

\* a check that caches the fingerprint along with the key
Record_BothKeys(i) ==
    /\ running = i /\ calls[i].pc = "LOOKED_UP"
    /\ Step(i, [calls[i] EXCEPT !.pc = "DEDUP_CHECKED"])
    /\ _recent_keys' =
          LET c == calls[i]
              r == AfterCheck(_recent_keys, c.key, c.now_ts, c.dup)
          IN  IF c.dup THEN r
              ELSE Remember(r, _make_fingerprint(c.content, c.date, c.time_str), c.now_ts)
    /\ UNCHANGED <<clock, db, env>>

\* lines 293-295 and 347
Record(i) ==
    /\ running = i /\ calls[i].pc = "LOOKED_UP"
    /\ Step(i, [calls[i] EXCEPT !.pc = "DEDUP_CHECKED"])
    /\ _recent_keys' = AfterCheck(_recent_keys, calls[i].key, calls[i].now_ts, calls[i].dup)
    /\ UNCHANGED <<clock, db, env>>

\* the text shown for the time: time_str or the placeholder
ShownTime(time_str) == IF time_str = <<>> THEN NO_TIME ELSE time_str[1]

\* lines 348-352
DuplicateReply(c) ==
    [NoResp EXCEPT !.kind = "duplicate", !.key8 = Prefix8(c.key), !.date = c.date,
                   !.time = ShownTime(c.time_str), !.content = c.content]

\* datetime.utcnow().replace(microsecond=0).isoformat() + "Z"
CreatedAt(u) ==
    ToDateString(u) \o <<"T">> \o Pad2(u.hour) \o <<":">> \o Pad2(u.minute)
    \o <<":">> \o Pad2(u.second) \o <<"Z">>

\* lines 354-361 and save_schedule_to_db: the row inserted
Row(c, rows, t) ==
    [id |-> Len(rows) + 1, date |-> ToDateString(c.dt_date), day_of_week |-> _weekday_ko(c.dt_date),
     time |-> c.time_str, content |-> c.content, created_at |-> CreatedAt(UtcNow(t))]

\* lines 367-372
SavedReply(row, total) ==
    [NoResp EXCEPT !.kind = "saved", !.row_id = row.id, !.date = row.date,
                   !.dow = row.day_of_week, !.time = ShownTime(row.time),
                   !.content = row.content, !.total = total]

\* a handler that stores the row of a duplicate before it replies
Finish_WritesDuplicate(i) ==
    /\ running = i /\ calls[i].pc = "DEDUP_CHECKED"
    /\ IF calls[i].dup
       THEN /\ Step(i, Return(calls[i], DuplicateReply(calls[i])))
            /\ db' = Append(db, Row(calls[i], db, clock))
       ELSE \E o \in StoreOutcomes(env) :
               LET row == Row(calls[i], db, clock)
               IN  /\ db' = IF o = "insert_raises" THEN db ELSE Append(db, row)
                   /\ Step(i, Return([calls[i] EXCEPT !.store = o, !.wrote = (o # "insert_raises")],
                                     IF o = "ok" THEN SavedReply(row, Len(db) + 1)
                                     ELSE ServerException("sqlite3.Error")))
    /\ UNCHANGED <<clock, _recent_keys, env>>

\* lines 348-372: the duplicate reply, or the row is written and counted
Finish(i) ==
    /\ running = i /\ calls[i].pc = "DEDUP_CHECKED"
    /\ IF calls[i].dup
       THEN /\ Step(i, Return(calls[i], DuplicateReply(calls[i])))
            /\ db' = db
       ELSE \E o \in StoreOutcomes(env) :
               LET row == Row(calls[i], db, clock)
               IN  /\ db' = IF o = "insert_raises" THEN db ELSE Append(db, row)
                   /\ Step(i, Return([calls[i] EXCEPT !.store = o, !.wrote = (o # "insert_raises")],
                                     IF o = "ok" THEN SavedReply(row, Len(db) + 1)
                                     ELSE ServerException("sqlite3.Error")))
    /\ UNCHANGED <<clock, _recent_keys, env>>

\* time passes while the event loop is not inside a handler: a handler runs
\* without awaiting, and its readings of the clock are taken at one instant
Tick ==
    /\ running = 0
    /\ \E d \in TickSteps : clock + d <= MaxClock /\ clock' = clock + d
    /\ UNCHANGED <<_recent_keys, db, calls, running, env>>

InitState(e) ==
    /\ clock = 0
    /\ _recent_keys = <<>>
    /\ db = <<>>
    /\ env = e
    /\ calls = [i \in 1..NumCalls(e) |-> NewCall]
    /\ running = 0

Init == InitState([requests |-> "retry", store |-> "faulty"])
InitReliable == InitState([requests |-> "mixed", store |-> "reliable"])
InitBurst == InitState([requests |-> "burst", store |-> "reliable"])
InitShape == InitState([requests |-> "shape", store |-> "faulty"])
InitResubmit == InitState([requests |-> "resubmit", store |-> "reliable"])
InitAbsolute == InitState([requests |-> "absolute", store |-> "reliable"])
\* one family of TOKEN requests, and a store that does not fail
InitTypes == InitState([requests |-> "types", store |-> "reliable"])
InitRows == InitState([requests |-> "rows", store |-> "reliable"])
InitDays == InitState([requests |-> "days", store |-> "reliable"])
InitMonths == InitState([requests |-> "months", store |-> "reliable"])
InitNth == InitState([requests |-> "nth", store |-> "reliable"])
InitWeeks == InitState([requests |-> "weeks", store |-> "reliable"])
InitSlots == InitState([requests |-> "slots", store |-> "reliable"])
InitHours == InitState([requests |-> "hours", store |-> "reliable"])
InitAnchors == InitState([requests |-> "anchors", store |-> "reliable"])
InitWeekTypes == InitState([requests |-> "weektypes", store |-> "reliable"])
InitThisMonth == InitState([requests |-> "thismonth", store |-> "reliable"])

Next ==
    \/ Tick
    \/ \E i \in DOMAIN calls : Dispatch(i)
    \/ \E i \in DOMAIN calls : Validate(i)
    \/ \E i \in DOMAIN calls : Anchor(i)
    \/ \E i \in DOMAIN calls : ResolveDate(i)
    \/ \E i \in DOMAIN calls : ResolveTime(i)
    \/ \E i \in DOMAIN calls : Sweep(i)
    \/ \E i \in DOMAIN calls : Lookup(i)
    \/ \E i \in DOMAIN calls : Record(i)
    \/ \E i \in DOMAIN calls : Finish(i)

\* the store may fail
Spec == Init /\ [][Next]_vars
\* the store is the reliable local operation section 4.6 of the design assumes
SpecReliable == InitReliable /\ [][Next]_vars
\* a burst of calls with the same key
SpecBurst == InitBurst /\ [][Next]_vars
\* malformed requests
SpecShape == InitShape /\ [][Next]_vars
\* rejected requests that are corrected and sent again
SpecResubmit == InitResubmit /\ [][Next]_vars
\* one ABSOLUTE request sent with different values of anchor_now
SpecAbsolute == InitAbsolute /\ [][Next]_vars
\* token types inside and outside the recognised sets
SpecTypes == InitTypes /\ [][Next]_vars
\* requests of both modes that are stored
SpecRows == InitRows /\ [][Next]_vars
\* AFTER_N_DAY
SpecDays == InitDays /\ [][Next]_vars
\* NEXT_MONTH
SpecMonths == InitMonths /\ [][Next]_vars
\* NTH_WEEKDAY_OF_MONTH
SpecNth == InitNth /\ [][Next]_vars
\* WEEKDAY_OF
SpecWeeks == InitWeeks /\ [][Next]_vars
\* SLOT
SpecSlots == InitSlots /\ [][Next]_vars
\* AFTER_N_HOUR
SpecHours == InitHours /\ [][Next]_vars
\* anchor_now
SpecAnchors == InitAnchors /\ [][Next]_vars
\* THIS_WEEK, NEXT_WEEK and AFTER_N_WEEK
SpecWeekTypes == InitWeekTypes /\ [][Next]_vars
\* THIS_MONTH
SpecThisMonth == InitThisMonth /\ [][Next]_vars

\* =============================================================== claims

CallIds == DOMAIN calls
Returned(i) == calls[i].pc = "RETURNED"

\* the three terminal states of the design, read off the reply; the reply to a
\* sqlite failure is none of them
Outcome(c) ==
    CASE c.resp.kind = "saved" -> "ACCEPTED"
      [] c.resp.kind = "duplicate" -> "REJECTED_DUPLICATE"
      [] c.resp.kind \in {"invalid_arguments", "content_when_required", "mode_not_allowed",
                          "date_required", "format_error"} -> "REJECTED_INVALID"
      [] c.resp.kind = "server_exception" /\ c.resp.exc # "sqlite3.Error" -> "REJECTED_INVALID"
      [] c.resp.kind = "server_exception" /\ c.resp.exc = "sqlite3.Error" -> "PERSISTENCE_ERROR"
      [] OTHER -> "NONE"

SameDay(a, b) == a.year = b.year /\ a.month = b.month /\ a.day = b.day
\* seconds between the dedup checks of two calls
Gap(i, j) == Abs(calls[i].now_ts - calls[j].now_ts)
\* no call other than i and j has looked the key of i up
OnlyUsers(i, j) ==
    \A k \in CallIds \ {i, j} : calls[k].looked => calls[k].key # calls[i].key
\* two calls that have both returned after a dedup check
CheckedPair(i, j) ==
    /\ i # j /\ Returned(i) /\ Returned(j) /\ calls[i].looked /\ calls[j].looked

\* ------------------------------------------------------------------ C1
\* the requests of C1: no idempotency_key, the same content, the same resolved
\* date and the same resolved time, checked within the TTL of each other
SameScheduleTwice(i, j) ==
    /\ CheckedPair(i, j)
    /\ ArgsOf(calls[i]).idempotency_key = <<>> /\ ArgsOf(calls[j]).idempotency_key = <<>>
    /\ calls[i].content = calls[j].content
    /\ SameDay(calls[i].dt_date, calls[j].dt_date)
    /\ calls[i].time_str = calls[j].time_str
    /\ Gap(i, j) <= DEDUP_TTL_SEC

\* C1: of two calls without idempotency_key that carry the same content, the
\* same resolved date and the same resolved time and are checked within the
\* TTL of each other, exactly one ends ACCEPTED and the other REJECTED_DUPLICATE.
C1_OneAcceptedOneDuplicate ==
    \A i, j \in CallIds :
        SameScheduleTwice(i, j)
        => {Outcome(calls[i]), Outcome(calls[j])} = {"ACCEPTED", "REJECTED_DUPLICATE"}

\* the same day written in two ways gives two keys, and the same row twice
C1_SameRowTwice ==
    \E i, j \in CallIds :
        /\ SameScheduleTwice(i, j)
        /\ Outcome(calls[i]) = "ACCEPTED" /\ Outcome(calls[j]) = "ACCEPTED"
        /\ calls[i].key # calls[j].key
        /\ \E a, b \in 1..Len(db) :
              /\ a # b /\ db[a].date = db[b].date /\ db[a].time = db[b].time
              /\ db[a].content = db[b].content

\* ------------------------------------------------------------------ C2
\* C2: the purge, the lookup and the insert of a dedup check run with no step
\* of another call in between, and two calls that look the same key up within
\* the TTL of each other never both get the answer "not a duplicate".
C2_CheckIsAtomic ==
    /\ \A i \in CallIds : calls[i].pc \in {"SWEPT", "LOOKED_UP"} =>
          /\ running = i
          /\ \A j \in CallIds \ {i} : calls[j].pc \in {"IDLE", "RETURNED"}
    /\ \A i, j \in CallIds :
          (/\ i # j /\ calls[i].looked /\ calls[j].looked
           /\ calls[i].key = calls[j].key /\ Gap(i, j) <= DEDUP_TTL_SEC)
          => ~(~calls[i].dup /\ ~calls[j].dup)

C2_Witness ==
    \E i, j \in CallIds :
        /\ CheckedPair(i, j) /\ calls[i].key = calls[j].key /\ Gap(i, j) <= DEDUP_TTL_SEC
        /\ ~calls[i].dup /\ calls[j].dup

\* ------------------------------------------------------------------ C3
\* the calls that have looked key k up
KeyUsers(k) == {i \in CallIds : calls[i].looked /\ calls[i].key = k}
\* the clock reading of the first dedup check among the calls of S
FirstCheck(S) == SetMin({calls[i].now_ts : i \in S})
\* every call of S has returned, and was checked within the TTL of the first
Burst(S) ==
    /\ S # {}
    /\ \A i \in S : Returned(i) /\ calls[i].now_ts - FirstCheck(S) <= DEDUP_TTL_SEC
Writers(S) == {i \in S : calls[i].wrote}

\* C3: when the calls that used a dedup key have all returned and their dedup
\* checks all fall within the TTL of the first one, exactly one of them has
\* written a row, and the table holds one row per writing call.
C3_BurstWritesOnce ==
    /\ \A i \in CallIds :
          (calls[i].looked /\ Burst(KeyUsers(calls[i].key)))
          => Cardinality(Writers(KeyUsers(calls[i].key))) = 1
    /\ Len(db) = Cardinality(Writers(CallIds))

\* three calls with one key, the last checked exactly TTL seconds after the first
C3_Witness ==
    \E i \in CallIds :
        LET S == KeyUsers(calls[i].key)
        IN  /\ calls[i].looked /\ Burst(S) /\ Cardinality(S) >= 3
            /\ Cardinality(Writers(S)) = 1
            /\ \E j \in S : calls[j].now_ts - FirstCheck(S) = DEDUP_TTL_SEC

\* ------------------------------------------------------------------ C4
\* two returned calls with the same key that no other call has used
SameKeyPair(i, j) ==
    CheckedPair(i, j) /\ calls[i].key = calls[j].key /\ OnlyUsers(i, j)

\* C4: two calls with the same dedup key, used by no other call, whose dedup
\* checks lie more than the TTL apart are both accepted and both write a row.
C4_BothAcceptedAfterTtl ==
    \A i, j \in CallIds :
        (SameKeyPair(i, j) /\ Gap(i, j) > DEDUP_TTL_SEC)
        => /\ Outcome(calls[i]) = "ACCEPTED" /\ Outcome(calls[j]) = "ACCEPTED"
           /\ calls[i].wrote /\ calls[j].wrote
           /\ Len(db) >= 2

C4_Witness ==
    \E i, j \in CallIds :
        /\ SameKeyPair(i, j) /\ Gap(i, j) = DEDUP_TTL_SEC + 1
        /\ ArgsOf(calls[i]) = ArgsOf(calls[j])
        /\ calls[i].wrote /\ calls[j].wrote

\* ------------------------------------------------------------------ C5
\* i, j and k are the calls that used the key of i, checked in this order:
\* i first, j within the TTL of i, k later than the TTL after i
WindowOf(i, j, k) ==
    /\ i # j /\ j # k /\ i # k
    /\ KeyUsers(calls[i].key) = {i, j, k}
    /\ Returned(i) /\ Returned(j) /\ Returned(k)
    /\ calls[i].now_ts <= calls[j].now_ts
    /\ calls[j].now_ts <= calls[i].now_ts + DEDUP_TTL_SEC
    /\ calls[k].now_ts > calls[i].now_ts + DEDUP_TTL_SEC

\* C5: a key accepted at t0 and reported duplicate at t1 <= t0 + TTL is
\* accepted again at any t2 > t0 + TTL, also when t2 - t1 <= TTL: the
\* duplicate hit has not refreshed the timestamp.
C5_WindowDoesNotExtend ==
    \A i, j, k \in CallIds :
        (/\ WindowOf(i, j, k)
         /\ Outcome(calls[i]) = "ACCEPTED" /\ Outcome(calls[j]) = "REJECTED_DUPLICATE")
        => /\ ~calls[k].dup /\ calls[k].wrote
           /\ Outcome(calls[k]) = "ACCEPTED"

C5_Witness ==
    \E i, j, k \in CallIds :
        /\ WindowOf(i, j, k)
        /\ Outcome(calls[i]) = "ACCEPTED" /\ Outcome(calls[j]) = "REJECTED_DUPLICATE"
        /\ calls[k].now_ts - calls[j].now_ts <= DEDUP_TTL_SEC
        /\ Outcome(calls[k]) = "ACCEPTED"

\* ------------------------------------------------------------------ C6
\* two returned calls that carry the same idempotency_key, used by no other
\* call, and were checked within the TTL of each other
SameIdempotencyKey(i, j) ==
    /\ CheckedPair(i, j)
    /\ ArgsOf(calls[i]).idempotency_key # <<>>
    /\ ArgsOf(calls[i]).idempotency_key = ArgsOf(calls[j]).idempotency_key
    /\ \A k \in CallIds \ {i, j} :
          calls[k].looked =>
             ArgsOf(calls[k]).idempotency_key # ArgsOf(calls[i]).idempotency_key
    /\ Gap(i, j) <= DEDUP_TTL_SEC

\* C6: the idempotency_key of a request is its dedup key, verbatim, and of two
\* calls with the same idempotency_key checked within the TTL exactly one is
\* ACCEPTED and the other REJECTED_DUPLICATE, whatever their content, date and time.
C6_IdempotencyKeyIsTheKey ==
    /\ \A i \in CallIds :
          (calls[i].looked /\ ArgsOf(calls[i]).idempotency_key # <<>>)
          => calls[i].key = ArgsOf(calls[i]).idempotency_key
    /\ \A i, j \in CallIds :
          SameIdempotencyKey(i, j)
          => {Outcome(calls[i]), Outcome(calls[j])} = {"ACCEPTED", "REJECTED_DUPLICATE"}

\* the two calls differ in content and in resolved time
C6_Witness ==
    \E i, j \in CallIds :
        /\ SameIdempotencyKey(i, j)
        /\ calls[i].content # calls[j].content
        /\ calls[i].time_str # calls[j].time_str
        /\ Outcome(calls[i]) = "ACCEPTED" /\ Outcome(calls[j]) = "REJECTED_DUPLICATE"

\* ------------------------------------------------------------------ C7
\* what the request of call c resolves to, computed from its arguments and
\* its anchor: the day, and the time (absent when the request has none)
DateOf(c) ==
    IF c.mode = T_ABSOLUTE
    THEN IF Strip(ArgsOf(c).when.date) = <<>> THEN Fail
         ELSE ParseYmd(Strip(ArgsOf(c).when.date))
    ELSE resolve_date_token(c.now, ArgsOf(c).when.date_token)
TimeOf(c) ==
    IF c.mode = T_ABSOLUTE
    THEN LET t == Strip(ArgsOf(c).when.time)
         IN  IF t = <<>> THEN Some(<<>>) ELSE IF ParsesHhmm(t) THEN Some(<<t>>) ELSE Fail
    ELSE resolve_time_token(c.now, ArgsOf(c).when.time_token)

\* call i replies "duplicate" in this step
DuplicateReturns(i) ==
    /\ calls[i].pc # "RETURNED" /\ calls'[i].pc = "RETURNED"
    /\ Outcome(calls'[i]) = "REJECTED_DUPLICATE"

\* C7: when a call returns REJECTED_DUPLICATE the table holds the rows it held
\* when the call arrived, the timestamp cached for its key is the one cached
\* when the call arrived, and the reply carries the first 8 characters of
\* the key, a date that denotes the resolved day, and the resolved time.
C7_DuplicateChangesNothing ==
    [][\A i \in CallIds :
          DuplicateReturns(i)
          => LET c == calls'[i]
             IN  /\ db' = c.db0 /\ ~c.wrote
                 /\ c.key \in DOMAIN c.recent0 /\ c.key \in DOMAIN _recent_keys'
                 /\ _recent_keys'[c.key] = c.recent0[c.key]
                 /\ c.resp.key8 = Prefix8(c.key) /\ c.resp.row_id = 0
                 /\ ParseYmd(c.resp.date).ok /\ DateOf(c).ok
                 /\ SameDay(ParseYmd(c.resp.date).v, DateOf(c).v)
                 /\ TimeOf(c).ok /\ c.resp.time = ShownTime(TimeOf(c).v)]_vars

\* a duplicate has returned while the table holds a row, and nothing was added
C7_Witness ==
    \E i \in CallIds :
        /\ Returned(i) /\ Outcome(calls[i]) = "REJECTED_DUPLICATE"
        /\ Len(calls[i].db0) = 1 /\ db = calls[i].db0
        /\ Len(calls[i].key) > 8
        /\ _recent_keys[calls[i].key] < calls[i].now_ts

\* ------------------------------------------------------------------ C8
\* call i has returned after its INSERT raised
FailedWrite(i) == Returned(i) /\ calls[i].store = "insert_raises"
\* no dedup check has run later than the TTL after the check of call i
NoSweepPast(i) ==
    \A k \in CallIds :
        (calls[k].looked \/ calls[k].pc = "SWEPT")
        => calls[k].now_ts <= calls[i].now_ts + DEDUP_TTL_SEC

\* C8: a call whose INSERT raised has written no row and was answered with
\* the server error, which is neither the saved nor the duplicate reply; its
\* key stays cached with the timestamp of its check, and a later call with
\* that key checked within the TTL is a duplicate and writes no row either.
C8_FailedWriteKeepsKey ==
    /\ Len(db) = Cardinality({i \in CallIds : calls[i].store \in {"ok", "count_raises"}})
    /\ \A i \in CallIds :
          FailedWrite(i)
          => /\ ~calls[i].dup /\ ~calls[i].wrote /\ Len(db) >= Len(calls[i].db0)
             /\ Outcome(calls[i]) = "PERSISTENCE_ERROR"
             /\ NoSweepPast(i)
                => /\ calls[i].key \in DOMAIN _recent_keys
                   /\ _recent_keys[calls[i].key] = calls[i].now_ts
    /\ \A i, j \in CallIds :
          (/\ FailedWrite(i) /\ j > i /\ calls[j].looked
           /\ calls[j].key = calls[i].key
           /\ calls[j].now_ts <= calls[i].now_ts + DEDUP_TTL_SEC)
          => /\ calls[j].dup /\ ~calls[j].wrote
             /\ Returned(j) => Outcome(calls[j]) = "REJECTED_DUPLICATE"

\* the INSERT of a call raised, the same request came again and was reported
\* duplicate, and the table is empty
C8_Witness ==
    \E i, j \in CallIds :
        /\ FailedWrite(i) /\ Returned(j) /\ j > i
        /\ ArgsOf(calls[j]) = ArgsOf(calls[i])
        /\ calls[j].now_ts > calls[i].now_ts
        /\ Outcome(calls[j]) = "REJECTED_DUPLICATE"
        /\ db = <<>>

\* ------------------------------------------------------------------ C9
\* the order of the steps of a call
StepOrder ==
    {<<"IDLE", "RECEIVED">>, <<"RECEIVED", "VALIDATED">>, <<"VALIDATED", "ANCHORED">>,
     <<"ANCHORED", "DATE_RESOLVED">>, <<"DATE_RESOLVED", "TIME_RESOLVED">>,
     <<"TIME_RESOLVED", "SWEPT">>, <<"SWEPT", "LOOKED_UP">>, <<"LOOKED_UP", "DEDUP_CHECKED">>,
     <<"DEDUP_CHECKED", "RETURNED">>}
\* the steps at which a call may be rejected as invalid
ShortCuts == {"RECEIVED", "ANCHORED", "DATE_RESOLVED"}

\* where every call stands: its outcome, and what its dedup check and its
\* write rest on
OutcomeInOrder ==
    \A i \in CallIds :
        LET c == calls[i]
        IN  /\ Returned(i)
               => /\ Outcome(c) \in {"ACCEPTED", "REJECTED_DUPLICATE", "REJECTED_INVALID"}
                  /\ Outcome(c) = "ACCEPTED" <=> c.wrote
                  /\ Outcome(c) = "REJECTED_DUPLICATE" <=> (c.looked /\ c.dup)
                  /\ Outcome(c) = "REJECTED_INVALID" <=> ~c.looked
            /\ c.pc = "LOOKED_UP"
               => /\ DateOf(c).ok /\ SameDay(c.dt_date, DateOf(c).v)
                  /\ TimeOf(c).ok /\ c.time_str = TimeOf(c).v
                  /\ c.now = _now(ArgsOf(c).anchor_now, UtcNow(c.now_ts))
            /\ c.looked => c.pc \in {"LOOKED_UP", "DEDUP_CHECKED", "RETURNED"}
            /\ c.wrote => c.looked /\ ~c.dup

\* a step of a call follows the order or cuts short to REJECTED_INVALID, and
\* the table changes only in the step after a dedup check that said "new"
StepInOrder ==
    /\ \A i \in CallIds :
          calls'[i].pc # calls[i].pc
          => \/ <<calls[i].pc, calls'[i].pc>> \in StepOrder
             \/ /\ calls[i].pc \in ShortCuts /\ calls'[i].pc = "RETURNED"
                /\ Outcome(calls'[i]) = "REJECTED_INVALID"
    /\ db' # db
       => \E i \in CallIds :
             /\ calls[i].pc = "DEDUP_CHECKED" /\ calls'[i].pc = "RETURNED"
             /\ calls[i].looked /\ ~calls[i].dup
             /\ Len(db') = Len(db) + 1

\* C9: with a store that does not fail, every returned call is in exactly one
\* of ACCEPTED, REJECTED_DUPLICATE and REJECTED_INVALID; the steps of a call
\* run in the order shape, anchor, date, time, dedup check, write; the dedup
\* check runs only when the date and the time resolved; a row is written only
\* after a dedup check that answered "not a duplicate".
C9_StateMachine == []OutcomeInOrder /\ [][StepInOrder]_vars

\* the three outcomes side by side: an accepted call, its duplicate, and a
\* call rejected when its time token did not resolve
C9_Witness ==
    \E i, j \in CallIds :
        /\ Returned(i) /\ Returned(j)
        /\ {Outcome(calls[i]), Outcome(calls[j])} \in
              {{"ACCEPTED", "REJECTED_INVALID"}, {"REJECTED_DUPLICATE", "REJECTED_INVALID"}}
        /\ \E k \in {i, j} : DateOf(calls[k]).ok /\ ~TimeOf(calls[k]).ok /\ ~calls[k].looked

\* ----------------------------------------------------------------- C10
\* content missing or empty after trimming, or when.mode missing or not
\* exactly ABSOLUTE or TOKEN
ShapeError(a) ==
    \/ ~a.isdict \/ ~a.when.isdict
    \/ Strip(a.content) = <<>>
    \/ a.when.mode \notin {T_ABSOLUTE, T_TOKEN}

\* C10: a request with a shape error is rejected in the first step: no anchor is
\* resolved, no date or time is resolved, the dedup store is not consulted and
\* nothing is written.
C10_ShapeErrorRejectedAtOnce ==
    \A i \in CallIds :
        (calls[i].pc # "IDLE" /\ ShapeError(ArgsOf(calls[i])))
        => /\ calls[i].pc \in {"RECEIVED", "RETURNED"}
           /\ Returned(i) => Outcome(calls[i]) = "REJECTED_INVALID"
           /\ calls[i].now = ZeroDT /\ calls[i].dt_date = ZeroDT
           /\ ~calls[i].looked /\ ~calls[i].wrote

\* a request with when.mode "absolute" is saved
C10_LowerCaseModeSaved ==
    \E i \in CallIds :
        /\ Returned(i) /\ ArgsOf(calls[i]).when.mode = M_absolute
        /\ Outcome(calls[i]) = "ACCEPTED" /\ calls[i].wrote

\* ----------------------------------------------------------------- C11
\* the token types the resolvers recognise
DateTokenTypes ==
    {T_THIS_MONTH, T_NEXT_MONTH, T_SAME_MONTH_DATA, T_AFTER_N_DAY, T_THIS_WEEK, T_NEXT_WEEK,
     T_AFTER_N_WEEK, T_WEEKDAY_OF, T_NTH_WEEKDAY_OF_MONTH, T_END_OF_MONTH, T_BEGIN_OF_MONTH}
TimeTokenTypes == {T_ABS, T_SLOT, T_AFTER_N_HOUR}
\* a token that carries a type, and the type is not recognised in any case
UnknownType(token, known) == token.type # <<>> /\ Upper(token.type) \notin known
\* a TOKEN request with an unrecognised type in one of its tokens
HasUnknownType(a) ==
    /\ a.isdict /\ a.when.isdict /\ Upper(a.when.mode) = T_TOKEN
    /\ \/ UnknownType(a.when.date_token, DateTokenTypes)
       \/ UnknownType(a.when.time_token, TimeTokenTypes)

\* C11: a TOKEN request whose date_token or time_token carries a type outside
\* the recognised set ends REJECTED_INVALID and writes no row.
C11_UnknownTypeRejected ==
    \A i \in CallIds :
        (Returned(i) /\ HasUnknownType(ArgsOf(calls[i])))
        => Outcome(calls[i]) = "REJECTED_INVALID" /\ ~calls[i].wrote

\* a request with time_token type LATER is saved without a time
C11_UnknownTimeTypeSaved ==
    \E i \in CallIds :
        /\ Returned(i) /\ UnknownType(ArgsOf(calls[i]).when.time_token, TimeTokenTypes)
        /\ Outcome(calls[i]) = "ACCEPTED" /\ calls[i].wrote
        /\ db[Len(db)].time = <<>>

\* ----------------------------------------------------------------- C12
\* HH:MM with two digits each, hour in 0..23 and minute in 0..59
PaddedHhmm(s) ==
    /\ Len(s) = 5 /\ AllDigits(SubSeq(s, 1, 2)) /\ s[3] = ":" /\ AllDigits(SubSeq(s, 4, 5))
    /\ ToInt(SubSeq(s, 1, 2)) <= 23 /\ ToInt(SubSeq(s, 4, 5)) <= 59
\* the date of a row is a calendar date written YYYY-MM-DD, and its
\* day_of_week is the label of the weekday of that date
RowDateWellFormed(row) ==
    /\ IsoDate(row.date)
    /\ row.day_of_week = WEEKDAY_KO[Weekday(ParseYmd(row.date).v) + 1]
RowTimeWellFormed(row) == row.time = <<>> \/ PaddedHhmm(row.time[1])

\* C12: every row of the table has a date that is a calendar date in
\* YYYY-MM-DD form, a time that is absent or a zero-padded HH:MM with hour in
\* 0..23 and minute in 0..59, and the day_of_week label of the weekday of
\* its date.
C12_RowsWellFormed ==
    \A r \in 1..Len(db) : RowDateWellFormed(db[r]) /\ RowTimeWellFormed(db[r])

\* a row whose date and day_of_week are well formed and whose time is 9:5
C12_UnpaddedTimeStored ==
    \E r \in 1..Len(db) :
        /\ RowDateWellFormed(db[r]) /\ db[r].time = <<H_9_5>>

\* ----------------------------------------------------------------- C13
\* the handler of call i has swept the dedup store and has not yet returned
HasSwept(i) == calls[i].pc \in {"SWEPT", "LOOKED_UP", "DEDUP_CHECKED"}
\* the keys that were in the dedup store when call i arrived and had expired
\* by the time of its check
ExpiredFor(i) ==
    {k \in DOMAIN calls[i].recent0 : calls[i].now_ts - calls[i].recent0[k] > DEDUP_TTL_SEC}

\* C13: once the dedup check of a call at time now has swept, the dedup store
\* holds no entry with now - timestamp > TTL, and every entry that had
\* expired when the call arrived is gone, whatever its key (the key of the
\* call itself is back only with the timestamp now).
C13_SweepRemovesExpired ==
    \A i \in CallIds :
        HasSwept(i)
        => /\ \A k \in DOMAIN _recent_keys :
                 calls[i].now_ts - _recent_keys[k] <= DEDUP_TTL_SEC
           /\ \A k \in ExpiredFor(i) :
                 \/ k \notin DOMAIN _recent_keys
                 \/ /\ k = calls[i].key /\ calls[i].pc = "DEDUP_CHECKED"
                    /\ _recent_keys[k] = calls[i].now_ts

\* the check of a call has removed the expired entry of another key
C13_Witness ==
    \E i \in CallIds :
        /\ calls[i].pc = "DEDUP_CHECKED"
        /\ \E k \in ExpiredFor(i) : k # calls[i].key /\ k \notin DOMAIN _recent_keys
        /\ calls[i].key \in DOMAIN _recent_keys

\* ----------------------------------------------------------------- C14
\* the handler of call i has just resolved its date
DateResolved(i) == calls[i].pc = "DATE_RESOLVED"
\* the date_token and the time_token of call i
DateToken(i) == ArgsOf(calls[i]).when.date_token
TimeToken(i) == ArgsOf(calls[i]).when.time_token
\* the instant the anchor_now of call i names
AnchorOf(i) == CHOOSE a \in Anchors : IsoText(a) = ArgsOf(calls[i]).anchor_now
\* |k|
Magnitude(k) == IF k < 0 THEN 0 - k ELSE k
\* b is the instant a moved by d days, at the same time of day
DaysApart(a, b, d) ==
    /\ ToOrdinal(b.year, b.month, b.day) - ToOrdinal(a.year, a.month, a.day) = d
    /\ b.hour = a.hour /\ b.minute = a.minute /\ b.second = a.second
\* call i carries an AFTER_N_DAY token with an integer n and no value
AfterNDay(i) ==
    /\ calls[i].mode = T_TOKEN
    /\ Upper(DateToken(i).type) = T_AFTER_N_DAY
    /\ DateToken(i).n # <<>> /\ DateToken(i).n[1].t = "int" /\ DateToken(i).value = <<>>

\* C14: AFTER_N_DAY with n = k resolves to the anchor plus |k| days, never to
\* a date before the anchor, and the token with n = -k resolves to the same date.
C14_AfterNDayMirrors ==
    \A i \in CallIds :
        (DateResolved(i) /\ AfterNDay(i))
        => LET k == DateToken(i).n[1].i
           IN  /\ calls[i].now = AnchorOf(i)
               /\ DaysApart(AnchorOf(i), calls[i].dt_date, Magnitude(k))
               /\ resolve_date_token(AnchorOf(i), [DateToken(i) EXCEPT !.n = IntV(0 - k)])
                  = Some(calls[i].dt_date)

\* a negative n moves the date forward, here into the next month
C14_Witness ==
    \E i \in CallIds :
        /\ AfterNDay(i) /\ Returned(i) /\ calls[i].wrote
        /\ DateToken(i).n[1].i < 0
        /\ calls[i].dt_date.month # AnchorOf(i).month
        /\ db[Len(db)].date = ToDateString(calls[i].dt_date)

\* ----------------------------------------------------------------- C15
\* the number of days of month m of year y, from the calendar rule
MonthLength(y, m) ==
    IF m = 2 THEN (IF (y % 4 = 0 /\ y % 100 # 0) \/ y % 400 = 0 THEN 29 ELSE 28)
    ELSE IF m \in {4, 6, 9, 11} THEN 30 ELSE 31
\* the year and the month after those of instant a
FollowingMonth(a) ==
    IF a.month = 12 THEN [year |-> a.year + 1, month |-> 1]
    ELSE [year |-> a.year, month |-> a.month + 1]
\* the value of a token field that holds an integer or the text of one
FieldInt(f) == IF f[1].t = "int" THEN f[1].i ELSE ToInt(f[1].s)
\* call i carries a NEXT_MONTH token
NextMonth(i) == calls[i].mode = T_TOKEN /\ Upper(DateToken(i).type) = T_NEXT_MONTH
D_2024_04_30 == <<"2", "0", "2", "4", "-", "0", "4", "-", "3", "0">>

\* C15: NEXT_MONTH resolves, at the anchor's time of day, to the month after
\* the anchor's month (January of the next year after December), on the day
\* asked for or else the anchor's day, cut down to the last day of that month;
\* no such request is rejected; anchor 2024-03-31 without a day gives
\* 2024-04-30, a Tuesday.
C15_NextMonthClamps ==
    \A i \in CallIds :
        /\ (DateResolved(i) /\ NextMonth(i))
           => LET a    == AnchorOf(i)
                  d    == calls[i].dt_date
                  tm   == FollowingMonth(a)
                  want == IF DateToken(i).day = <<>> THEN a.day ELSE FieldInt(DateToken(i).day)
                  last == MonthLength(tm.year, tm.month)
              IN  /\ d.year = tm.year /\ d.month = tm.month
                  /\ d.day = IF want < last THEN want ELSE last
                  /\ d.hour = a.hour /\ d.minute = a.minute /\ d.second = a.second
                  /\ (a = DateTime(2024, 3, 31, 10, 0, 0) /\ DateToken(i).day = <<>>)
                     => /\ ToDateString(d) = D_2024_04_30
                        /\ Weekday(d) = 1 /\ _weekday_ko(d) = "hwa"
        /\ (Returned(i) /\ NextMonth(i)) => Outcome(calls[i]) # "REJECTED_INVALID"

\* the scenario of the design: the row written is 2024-04-30, a Tuesday
C15_Witness ==
    \E i \in CallIds :
        /\ Returned(i) /\ NextMonth(i) /\ calls[i].wrote
        /\ AnchorOf(i) = DateTime(2024, 3, 31, 10, 0, 0) /\ DateToken(i).day = <<>>
        /\ db[calls[i].resp.row_id].date = D_2024_04_30
        /\ db[calls[i].resp.row_id].day_of_week = "hwa"

\* ----------------------------------------------------------------- C16
\* call i carries an NTH_WEEKDAY_OF_MONTH token with an integer n >= 1
NthWeekday(i) ==
    /\ calls[i].mode = T_TOKEN /\ Upper(DateToken(i).type) = T_NTH_WEEKDAY_OF_MONTH
    /\ DateToken(i).n # <<>> /\ DateToken(i).n[1].t = "int" /\ DateToken(i).n[1].i >= 1
\* the weekday a label of the family names: 0 = Monday .. 6 = Sunday
LabelNumber(label) == IF label = T_MON THEN 0 ELSE 3
\* the year and month the token of call i points at
TargetMonth(i) ==
    IF Upper(DateToken(i).anchor) = T_NEXT_MONTH THEN FollowingMonth(AnchorOf(i))
    ELSE [year |-> AnchorOf(i).year, month |-> AnchorOf(i).month]
\* the days of month tm that fall on weekday w, in order
DaysOn(tm, w) ==
    {x \in 1..MonthLength(tm.year, tm.month) :
        Weekday(DateTime(tm.year, tm.month, x, 0, 0, 0)) = w}
\* day x is the n-th element of the set of days S
IsNth(S, x, n) == x \in S /\ Cardinality({y \in S : y <= x}) = n

\* C16: NTH_WEEKDAY_OF_MONTH with n >= 1 resolves, at the anchor's time of
\* day, to the n-th day with the given weekday of the target month, which is a
\* day in 7(n-1)+1 .. 7n of that month; a request that resolved is not
\* rejected, and a request is rejected, with nothing written, only when the
\* target month has fewer than n such days.
C16_NthWeekdayOrRejected ==
    \A i \in CallIds :
        LET n  == DateToken(i).n[1].i
            tm == TargetMonth(i)
            S  == DaysOn(tm, LabelNumber(DateToken(i).weekday))
            a  == AnchorOf(i)
            d  == calls[i].dt_date
        IN  /\ (DateResolved(i) /\ NthWeekday(i))
               => /\ d.year = tm.year /\ d.month = tm.month
                  /\ IsNth(S, d.day, n)
                  /\ d.day \in (7 * (n - 1) + 1)..(7 * n)
                  /\ d.hour = a.hour /\ d.minute = a.minute /\ d.second = a.second
            /\ (Returned(i) /\ NthWeekday(i))
               => IF calls[i].looked THEN Outcome(calls[i]) # "REJECTED_INVALID"
                  ELSE /\ calls[i].resp = ServerException("ValueError") /\ ~calls[i].wrote
                       /\ Cardinality(S) < n

\* the fifth Monday of a month that has four was asked for and rejected
C16_Witness ==
    \E i \in CallIds :
        /\ Returned(i) /\ NthWeekday(i) /\ DateToken(i).n[1].i = 5
        /\ DateToken(i).weekday = T_MON /\ Cardinality(DaysOn(TargetMonth(i), 0)) = 4
        /\ Outcome(calls[i]) = "REJECTED_INVALID" /\ db = <<>>



\* ----------------------------------------------------------------- C17
\* call i asks for the Monday of the week after its anchor, and the anchor
\* is itself a Monday
MondayOfNextWeek(i) ==
    /\ calls[i].mode = T_TOKEN /\ Upper(DateToken(i).type) = T_WEEKDAY_OF
    /\ Upper(DateToken(i).anchor) = T_NEXT_WEEK
    /\ DateToken(i).weekday \in {T_MON, T_wol}
    /\ Weekday(AnchorOf(i)) = 0

\* C17: WEEKDAY_OF with anchor NEXT_WEEK and Monday's label, from an anchor
\* that is a Monday, resolves to a Monday 7 to 13 days after the anchor (the
\* Monday 7 days after it), at the anchor's time of day, and is not rejected.
C17_MondayOfNextWeek ==
    \A i \in CallIds :
        /\ (DateResolved(i) /\ MondayOfNextWeek(i))
           => LET a == AnchorOf(i)
                  d == calls[i].dt_date
                  k == ToOrdinal(d.year, d.month, d.day) - ToOrdinal(a.year, a.month, a.day)
              IN  /\ k \in 7..13 /\ k = 7
                  /\ Weekday(d) = 0 /\ _weekday_ko(d) = "wol"
                  /\ d.hour = a.hour /\ d.minute = a.minute /\ d.second = a.second
        /\ (Returned(i) /\ MondayOfNextWeek(i)) => Outcome(calls[i]) # "REJECTED_INVALID"

\* from Monday 2024-12-30 the row written is for Monday 2025-01-06
D_2025_01_06 == <<"2", "0", "2", "5", "-", "0", "1", "-", "0", "6">>
C17_Witness ==
    \E i \in CallIds :
        /\ Returned(i) /\ MondayOfNextWeek(i) /\ calls[i].wrote
        /\ AnchorOf(i) = DateTime(2024, 12, 30, 12, 45, 0)
        /\ db[calls[i].resp.row_id].date = D_2025_01_06
        /\ db[calls[i].resp.row_id].day_of_week = "wol"


\* ----------------------------------------------------------------- C18
H_15_00 == <<"1", "5", ":", "0", "0">>
H_19_00 == <<"1", "9", ":", "0", "0">>
H_21_00 == <<"2", "1", ":", "0", "0">>
\* the time of day of a slot name, and <<>> for any other name
SlotTime(name) ==
    CASE name = T_MORNING -> H_09_00
      [] name = T_AFTERNOON -> H_15_00
      [] name = T_EVENING -> H_19_00
      [] name = T_NIGHT -> H_21_00
      [] OTHER -> <<>>
\* call i carries a SLOT time token
SlotCall(i) == calls[i].mode = T_TOKEN /\ Upper(TimeToken(i).type) = T_SLOT
\* the slot name of call i, which the server reads in any letter case
SlotName(i) == Upper(TimeToken(i).slot)

\* C18: a SLOT token resolves by its name alone: MORNING, AFTERNOON, EVENING
\* and NIGHT (in any letter case) give 09:00, 15:00, 19:00 and 21:00 whatever
\* the anchor or the clock, that time is the time of the row written, and a
\* token with any other name, or with none, is rejected as invalid before the
\* dedup store is consulted and writes nothing.
C18_SlotByNameOnly ==
    \A i \in CallIds :
        SlotCall(i)
        => /\ calls[i].pc = "TIME_RESOLVED"
              => SlotTime(SlotName(i)) # <<>> /\ calls[i].time_str = <<SlotTime(SlotName(i))>>
           /\ Returned(i)
              => IF SlotTime(SlotName(i)) # <<>>
                 THEN /\ Outcome(calls[i]) # "REJECTED_INVALID"
                      /\ calls[i].time_str = <<SlotTime(SlotName(i))>>
                      /\ calls[i].wrote
                         => db[calls[i].resp.row_id].time = <<SlotTime(SlotName(i))>>
                 ELSE /\ Outcome(calls[i]) = "REJECTED_INVALID"
                      /\ calls[i].resp = ServerException("ValueError")
                      /\ ~calls[i].looked /\ ~calls[i].wrote

\* AFTERNOON was saved as 15:00 from an anchor late in the evening
C18_Witness ==
    \E i \in CallIds :
        /\ Returned(i) /\ SlotCall(i) /\ SlotName(i) = T_AFTERNOON /\ calls[i].wrote
        /\ ArgsOf(calls[i]).anchor_now = IsoText(DateTime(2024, 1, 29, 23, 30, 15))
        /\ db[calls[i].resp.row_id].time = <<H_15_00>>
\* a slot name outside the table was rejected
C18_WitnessUnknown ==
    \E i \in CallIds :
        /\ Returned(i) /\ SlotCall(i) /\ TimeToken(i).slot = T_NOON
        /\ Outcome(calls[i]) = "REJECTED_INVALID" /\ db = <<>>


\* ----------------------------------------------------------------- C19
\* call i carries an AFTER_N_HOUR token with an integer n and no value
AfterNHour(i) ==
    /\ calls[i].mode = T_TOKEN /\ Upper(TimeToken(i).type) = T_AFTER_N_HOUR
    /\ TimeToken(i).n # <<>> /\ TimeToken(i).n[1].t = "int" /\ TimeToken(i).value = <<>>
\* two decimal digits
TwoDigits(k) == <<Digits[(k \div 10) + 1], Digits[(k % 10) + 1]>>
\* the clock face h hours after instant a, to the minute
ClockAfter(a, h) == TwoDigits((a.hour + h) % 24) \o <<":">> \o TwoDigits(a.minute)
H_00_30 == <<"0", "0", ":", "3", "0">>

\* C19: AFTER_N_HOUR with n = k resolves to the anchor's clock time plus |k|
\* hours modulo 24, with the anchor's minute and without its seconds; the
\* token with n = -k resolves to the same time; and the date of the request
\* stays the anchor's date even when the hours added pass midnight.
C19_AfterNHourWraps ==
    \A i \in CallIds :
        AfterNHour(i)
        => LET k == TimeToken(i).n[1].i
               a == AnchorOf(i)
           IN  /\ calls[i].pc = "TIME_RESOLVED"
                  => /\ calls[i].now = a
                     /\ calls[i].time_str = <<ClockAfter(a, Magnitude(k))>>
                     /\ resolve_time_token(a, [TimeToken(i) EXCEPT !.n = IntV(0 - k)])
                        = Some(calls[i].time_str)
                     /\ calls[i].dt_date = a /\ calls[i].date = ToDateString(a)
               /\ Returned(i)
                  => /\ Outcome(calls[i]) # "REJECTED_INVALID"
                     /\ calls[i].wrote
                        => /\ db[calls[i].resp.row_id].time = <<ClockAfter(a, Magnitude(k))>>
                           /\ db[calls[i].resp.row_id].date = ToDateString(a)

\* one hour before 23:30:15 was asked for: the row is for 00:30 of the anchor's day
C19_Witness ==
    \E i \in CallIds :
        /\ Returned(i) /\ AfterNHour(i) /\ calls[i].wrote
        /\ TimeToken(i).n[1].i = -1
        /\ AnchorOf(i) = DateTime(2024, 1, 29, 23, 30, 15)
        /\ db[calls[i].resp.row_id].time = <<H_00_30>>
        /\ db[calls[i].resp.row_id].date = ToDateString(AnchorOf(i))


\* ----------------------------------------------------------------- C20
\* the handler of call i has read its anchor
Anchored(i) == calls[i].pc \notin {"IDLE", "RECEIVED", "VALIDATED"} /\ calls[i].mode # <<>>
\* the anchor_now of call i is present and is not an ISO 8601 instant
UnparsedAnchor(i) == ArgsOf(calls[i]).anchor_now \in {A_garbage, A_blank, A_2024_02_30}
\* the clock reading an anchor_now text names, whatever its offset
NamedInstant(text) ==
    CASE text \in {A_2024_03_31, A_plus_09} -> DateTime(2024, 3, 31, 10, 0, 0)
      [] text = A_minus_05 -> DateTime(2024, 12, 31, 23, 59, 59)
      [] text = D_2024_02_29 -> DateTime(2024, 2, 29, 0, 0, 0)
\* the anchor_now of call i is an ISO 8601 instant
ParsedAnchor(i) ==
    ArgsOf(calls[i]).anchor_now \in {A_2024_03_31, A_plus_09, A_minus_05, D_2024_02_29}
\* the reference time of a call that carries no anchor_now
Unanchored(t) == _now(<<>>, UtcNow(t))

\* C20: a call whose anchor_now does not parse is never rejected as invalid:
\* its reference time is the wall clock read when the handler runs, as for a
\* call without anchor_now, and its date and time resolve from that reading;
\* a call whose anchor_now parses takes the clock reading the text names as
\* its reference time, whatever offset the text carries.
C20_AnchorFallsBack ==
    \A i \in CallIds :
        /\ (Anchored(i) /\ UnparsedAnchor(i))
           => /\ running = i
                 => /\ calls[i].now = UtcNow(clock) /\ calls[i].now = Unanchored(clock)
                    /\ (calls[i].pc = "DATE_RESOLVED" /\ calls[i].mode = T_TOKEN)
                       => calls[i].dt_date = [UtcNow(clock) EXCEPT !.day = 1]
                    /\ (calls[i].pc = "TIME_RESOLVED" /\ AfterNHour(i))
                       => calls[i].time_str = <<ClockAfter(UtcNow(clock), 1)>>
              /\ calls[i].looked => calls[i].now = UtcNow(calls[i].now_ts)
              /\ Returned(i) => Outcome(calls[i]) # "REJECTED_INVALID"
              /\ (calls[i].wrote /\ calls[i].mode = T_TOKEN)
                 => db[calls[i].resp.row_id].date
                    = ToDateString([UtcNow(calls[i].now_ts) EXCEPT !.day = 1])
        /\ (Anchored(i) /\ ParsedAnchor(i))
           => /\ calls[i].now = NamedInstant(ArgsOf(calls[i]).anchor_now)
              /\ Returned(i) => Outcome(calls[i]) # "REJECTED_INVALID"

\* a request anchored at the word "soon" was saved for the first day of the
\* wall clock's month
D_2024_01_01 == <<"2", "0", "2", "4", "-", "0", "1", "-", "0", "1">>
C20_Witness ==
    \E i \in CallIds :
        /\ Returned(i) /\ ArgsOf(calls[i]).anchor_now = A_garbage
        /\ calls[i].mode = T_TOKEN /\ calls[i].wrote
        /\ Outcome(calls[i]) = "ACCEPTED"
        /\ db[calls[i].resp.row_id].date = D_2024_01_01
\* a request anchored at 10:00 +09:00 was resolved from 10:00
C20_WitnessOffset ==
    \E i \in CallIds :
        /\ Returned(i) /\ ArgsOf(calls[i]).anchor_now = A_plus_09 /\ calls[i].wrote
        /\ calls[i].now = DateTime(2024, 3, 31, 10, 0, 0)


\* ----------------------------------------------------------------- C21
\* the handler of call i has computed its fingerprint (line 345)
Fingerprinted(i) == calls[i].pc = "SWEPT" \/ calls[i].looked
\* the fingerprint the handler computes for call c
FingerprintOf(c) == _make_fingerprint(c.content, c.date, c.time_str)

\* C21: two calls with the same content, the same resolved date and the same
\* resolved time have the same fingerprint, whatever their mode, their anchor,
\* the order in which they arrive and the contents of the dedup store.
C21_FingerprintOfResolved ==
    \A i, j \in CallIds :
        (/\ Fingerprinted(i) /\ Fingerprinted(j)
         /\ calls[i].content = calls[j].content
         /\ SameDay(calls[i].dt_date, calls[j].dt_date)
         /\ calls[i].time_str = calls[j].time_str)
        => FingerprintOf(calls[i]) = FingerprintOf(calls[j])

\* a TOKEN request and an ABSOLUTE request for the same day and time have the
\* same fingerprint, and the second is reported as a duplicate
C21_SameAcrossModes ==
    \E i, j \in CallIds :
        /\ CheckedPair(i, j) /\ calls[i].mode = T_TOKEN /\ calls[j].mode = T_ABSOLUTE
        /\ calls[i].content = calls[j].content
        /\ SameDay(calls[i].dt_date, calls[j].dt_date)
        /\ calls[i].time_str = calls[j].time_str
        /\ FingerprintOf(calls[i]) = FingerprintOf(calls[j])
        /\ {calls[i].dup, calls[j].dup} = {TRUE, FALSE}


\* ----------------------------------------------------------------- C22
\* call i carries an AFTER_N_DAY token with both an integer n and a value
AfterNDayBoth(i) ==
    /\ calls[i].mode = T_TOKEN /\ Upper(DateToken(i).type) = T_AFTER_N_DAY
    /\ DateToken(i).n # <<>> /\ DateToken(i).n[1].t = "int" /\ DateToken(i).value # <<>>

\* C22: an AFTER_N_DAY token that carries both n and value resolves to the
\* anchor plus |n| days, for every integer n, 0 included; value is not read.
C22_NBeforeValue ==
    \A i \in CallIds :
        (DateResolved(i) /\ AfterNDayBoth(i))
        => DaysApart(AnchorOf(i), calls[i].dt_date, Magnitude(DateToken(i).n[1].i))

\* n = 0 with value = 5 is saved for the day five days after the anchor
D_2024_04_05 == <<"2", "0", "2", "4", "-", "0", "4", "-", "0", "5">>
C22_ZeroReadsValue ==
    \E i \in CallIds :
        /\ Returned(i) /\ AfterNDayBoth(i) /\ calls[i].wrote
        /\ DateToken(i).n[1].i = 0 /\ DateToken(i).value = IntV(5)
        /\ AnchorOf(i) = DateTime(2024, 3, 31, 10, 0, 0)
        /\ db[calls[i].resp.row_id].date = D_2024_04_05
\* a non-zero n with value = 5 resolves by n
C22_NonZeroReadsN ==
    \A i \in CallIds :
        (DateResolved(i) /\ AfterNDayBoth(i) /\ DateToken(i).n[1].i # 0)
        => DaysApart(AnchorOf(i), calls[i].dt_date, Magnitude(DateToken(i).n[1].i))


\* ----------------------------------------------------------------- C23
\* call i carries a THIS_WEEK, NEXT_WEEK or AFTER_N_WEEK token
WeekToken(i) ==
    /\ calls[i].mode = T_TOKEN
    /\ Upper(DateToken(i).type) \in {T_THIS_WEEK, T_NEXT_WEEK, T_AFTER_N_WEEK}
    /\ DateToken(i).n # <<>> => DateToken(i).n[1].t = "int"
\* the weeks the token of call i moves the anchor by
WeeksAhead(i) ==
    CASE Upper(DateToken(i).type) = T_THIS_WEEK -> 0
      [] Upper(DateToken(i).type) = T_NEXT_WEEK -> 1
      [] OTHER -> IF DateToken(i).n = <<>> THEN 1 ELSE Magnitude(DateToken(i).n[1].i)
\* the day number of a date, and the day number of the Monday of its week:
\* 2024-01-01 was a Monday
DayNumber(d) == ToOrdinal(d.year, d.month, d.day)
MondayNumber(k) == k - ((k - ToOrdinal(2024, 1, 1)) % 7)
\* the weekday a label of the family names, 0 = Monday .. 6 = Sunday, and -1
\* for a label that names none
WeekLabel(label) == CASE label = T_MON -> 0 [] label = T_il -> 6 [] OTHER -> -1

\* C23: THIS_WEEK, NEXT_WEEK and AFTER_N_WEEK move the anchor by 0, 7 and
\* 7*|n| days (7 when n is absent) to the week-anchor; without a weekday the
\* result is the week-anchor, with a weekday it is the day with that weekday
\* in the Monday-to-Sunday week that contains the week-anchor, at the anchor's
\* time of day; a label that names no weekday is rejected and nothing is
\* written, and no other such request is rejected.
C23_WeekAnchorAndWeekday ==
    \A i \in CallIds :
        WeekToken(i)
        => LET a  == AnchorOf(i)
               d  == calls[i].dt_date
               wa == DayNumber(a) + 7 * WeeksAhead(i)
               w  == WeekLabel(DateToken(i).weekday)
           IN  /\ DateResolved(i)
                  => /\ d.hour = a.hour /\ d.minute = a.minute /\ d.second = a.second
                     /\ IF DateToken(i).weekday = <<>> THEN DayNumber(d) = wa
                        ELSE /\ w >= 0
                             /\ MondayNumber(DayNumber(d)) = MondayNumber(wa)
                             /\ DayNumber(d) - MondayNumber(wa) = w
               /\ Returned(i)
                  => IF DateToken(i).weekday # <<>> /\ w < 0
                     THEN /\ calls[i].resp = ServerException("ValueError")
                          /\ Outcome(calls[i]) = "REJECTED_INVALID"
                          /\ ~calls[i].looked /\ ~calls[i].wrote
                     ELSE Outcome(calls[i]) # "REJECTED_INVALID"

\* Monday of the week MaxN weeks after Sunday 2024-03-31, asked for with a
\* negative n, was saved: it is six days before the week-anchor
C23_Witness ==
    \E i \in CallIds :
        /\ Returned(i) /\ WeekToken(i) /\ calls[i].wrote
        /\ Upper(DateToken(i).type) = T_AFTER_N_WEEK /\ DateToken(i).n = IntV(0 - MaxN)
        /\ DateToken(i).weekday = T_MON
        /\ AnchorOf(i) = DateTime(2024, 3, 31, 10, 0, 0)
        /\ DayNumber(calls[i].dt_date) = DayNumber(AnchorOf(i)) + 7 * MaxN - 6
        /\ db[calls[i].resp.row_id].day_of_week = "wol"


\* ----------------------------------------------------------------- C24
\* call i carries a THIS_MONTH token
ThisMonth(i) == calls[i].mode = T_TOKEN /\ Upper(DateToken(i).type) = T_THIS_MONTH
\* the day field of a token names the number k
DayIs(f, k) ==
    /\ f # <<>>
    /\ \/ f[1].t = "int" /\ f[1].i = k
       \/ f[1].t = "str" /\ AllDigits(f[1].s) /\ f[1].s # <<>> /\ ToInt(f[1].s) = k
\* the result of THIS_MONTH for anchor a and day field f: the anchor with
\* its day replaced when f names a day of the anchor's month
ThisMonthResult(a, f, d) ==
    /\ d.year = a.year /\ d.month = a.month
    /\ d.hour = a.hour /\ d.minute = a.minute /\ d.second = a.second
    /\ IF \E k \in 1..MonthLength(a.year, a.month) : DayIs(f, k)
       THEN DayIs(f, d.day)
       ELSE d.day = a.day

\* C24: a THIS_MONTH request is never rejected because of its day field: a
\* day of the anchor's month replaces the anchor's day, and any other day
\* value (past the end of the month, zero, negative, not a number) is
\* ignored, so that the result is the anchor itself.
C24_ThisMonthNeverRejects ==
    \A i \in CallIds :
        ThisMonth(i)
        => /\ DateResolved(i) => ThisMonthResult(AnchorOf(i), DateToken(i).day, calls[i].dt_date)
           /\ Returned(i) => Outcome(calls[i]) # "REJECTED_INVALID"

\* a THIS_MONTH request whose day is an array was rejected
C24_ArrayDayRejected ==
    \E i \in CallIds :
        /\ Returned(i) /\ ThisMonth(i) /\ DateToken(i).day = ListV
        /\ calls[i].resp = ServerException("TypeError")
        /\ Outcome(calls[i]) = "REJECTED_INVALID" /\ db = <<>>
\* a day that is an integer or a text resolves as claimed and is not rejected
C24_NumbersAndTexts ==
    \A i \in CallIds :
        (ThisMonth(i) /\ DateToken(i).day # ListV)
        => /\ DateResolved(i) => ThisMonthResult(AnchorOf(i), DateToken(i).day, calls[i].dt_date)
           /\ Returned(i) => Outcome(calls[i]) # "REJECTED_INVALID"


\* ----------------------------------------------------------------- C25
\* call i has returned REJECTED_INVALID
Rejected(i) == Returned(i) /\ Outcome(calls[i]) = "REJECTED_INVALID"
\* call i replies REJECTED_INVALID in this step
RejectedReturns(i) ==
    /\ calls[i].pc # "RETURNED" /\ calls'[i].pc = "RETURNED"
    /\ Outcome(calls'[i]) = "REJECTED_INVALID"
\* a call other than i and j, checked no later than j, cached the key of j
CachedByAnother(i, j) ==
    \E k \in CallIds \ {i, j} :
        /\ calls[k].looked /\ ~calls[k].dup /\ calls[k].key = calls[j].key
        /\ calls[k].now_ts <= calls[j].now_ts

\* C25: a call that ends REJECTED_INVALID has consulted neither the dedup
\* store nor the table, and when it returns both are as they were when it
\* arrived; a later call with the same content or the same idempotency_key
\* is reported as a duplicate only if a call other than the rejected one
\* cached its key.
C25_RejectedLeavesNoTrace ==
    /\ [](\A i \in CallIds :
            Rejected(i)
            => /\ ~calls[i].looked /\ ~calls[i].wrote /\ calls[i].key = <<>>
               /\ \A j \in CallIds \ {i} :
                     (/\ calls[j].looked /\ calls[j].dup
                      /\ \/ calls[j].content = Strip(ArgsOf(calls[i]).content)
                         \/ ArgsOf(calls[j]).idempotency_key = ArgsOf(calls[i]).idempotency_key)
                     => CachedByAnother(i, j))
    /\ [][\A i \in CallIds :
             RejectedReturns(i)
             => db' = calls'[i].db0 /\ _recent_keys' = calls'[i].recent0]_vars

\* a request with a date that does not exist was rejected, and the corrected
\* request with the same idempotency_key, sent in the same second, was saved
C25_Witness ==
    \E i, j \in CallIds :
        /\ i < j /\ Rejected(i) /\ Returned(j)
        /\ ArgsOf(calls[i]) = R_bad_date /\ ArgsOf(calls[j]) = R_idem_x
        /\ calls[j].now_ts = 0 /\ calls[j].recent0 = <<>>
        /\ Outcome(calls[j]) = "ACCEPTED" /\ Len(db) = 1


\* ----------------------------------------------------------------- C26
\* call i leaves its dedup check in this step
Checks(i) == calls[i].pc = "LOOKED_UP" /\ calls'[i].pc = "DEDUP_CHECKED"
\* call j resolved to the content, the day and the time of call i, and does
\* not carry the idempotency_key of call i
SameScheduleOtherKey(i, j) ==
    /\ i # j /\ calls[i].looked /\ calls[j].looked
    /\ ArgsOf(calls[i]).idempotency_key # <<>>
    /\ ArgsOf(calls[j]).idempotency_key # ArgsOf(calls[i]).idempotency_key
    /\ calls[i].content = calls[j].content /\ calls[i].date = calls[j].date
    /\ calls[i].time_str = calls[j].time_str

AtTtl(i, k) ==
    k \in DOMAIN calls[i].recent0 /\ calls[i].now_ts - calls[i].recent0[k] = 90

\* C27: an entry that is exactly TTL (90) seconds old at a dedup check is
\* kept by the sweep with its timestamp, and a call checked with its key is
\* reported as a duplicate; an entry older than that is removed, and a call
\* checked with its key is not a duplicate and caches the key anew.
C27_TtlInclusive ==
    \A i \in CallIds :
        /\ HasSwept(i)
           => \A k \in DOMAIN calls[i].recent0 \ {calls[i].key} :
                 k \in DOMAIN _recent_keys <=> calls[i].now_ts - calls[i].recent0[k] <= 90
        /\ (calls[i].pc = "SWEPT" /\ AtTtl(i, calls[i].key))
           => /\ calls[i].key \in DOMAIN _recent_keys
              /\ _recent_keys[calls[i].key] = calls[i].recent0[calls[i].key]
        /\ (calls[i].looked /\ calls[i].key \in DOMAIN calls[i].recent0)
           => /\ calls[i].dup <=> calls[i].now_ts - calls[i].recent0[calls[i].key] <= 90
              /\ Returned(i)
                 => Outcome(calls[i]) = IF calls[i].now_ts - calls[i].recent0[calls[i].key] <= 90
                                        THEN "REJECTED_DUPLICATE" ELSE "ACCEPTED"

\* a request sent again exactly 90 seconds after it was saved was reported
\* as a duplicate
C27_Witness ==
    \E i \in CallIds :
        /\ Returned(i) /\ AtTtl(i, calls[i].key) /\ DEDUP_TTL_SEC = 90
        /\ Outcome(calls[i]) = "REJECTED_DUPLICATE"
        /\ _recent_keys[calls[i].key] = calls[i].now_ts - 90
\* a request sent again 91 seconds after it was saved was saved again
C27_WitnessAfterTtl ==
    \E i \in CallIds :
        /\ Returned(i) /\ calls[i].key \in DOMAIN calls[i].recent0
        /\ calls[i].now_ts - calls[i].recent0[calls[i].key] = 91
        /\ Outcome(calls[i]) = "ACCEPTED" /\ _recent_keys[calls[i].key] = calls[i].now_ts


\* ----------------------------------------------------------------- C28
\* no INSERT has raised
EveryWriteSucceeded == \A i \in CallIds : calls[i].store # "insert_raises"
\* the calls that ended ACCEPTED
AcceptedCalls == {i \in CallIds : Returned(i) /\ Outcome(calls[i]) = "ACCEPTED"}

\* C28: as long as every write to the table has succeeded, the table holds
\* as many rows as calls have ended ACCEPTED.
C28_RowsAreAcceptedCalls ==
    EveryWriteSucceeded => Len(db) = Cardinality(AcceptedCalls)

\* the INSERT of a call committed, its SELECT COUNT raised: the table holds a
\* row and no call ended ACCEPTED
C28_RowWithoutAccepted ==
    \E i \in CallIds :
        /\ Returned(i) /\ calls[i].store = "count_raises" /\ calls[i].wrote
        /\ Outcome(calls[i]) = "PERSISTENCE_ERROR"
        /\ EveryWriteSucceeded /\ Len(db) = 1 /\ AcceptedCalls = {}
\* rows are only appended, one by every call that ends ACCEPTED, and a row
\* is numbered by its position; when no sqlite call raises, the rows are as
\* many as the calls that ended ACCEPTED
C28_AppendOnly ==
    /\ []((\A i \in CallIds : calls[i].store \in {"", "ok"})
           => Len(db) = Cardinality(AcceptedCalls))
    /\ [](\A k \in 1..Len(db) : db[k].id = k)
    /\ [][/\ Len(db') >= Len(db) /\ SubSeq(db', 1, Len(db)) = db
          /\ \A i \in CallIds :
                (calls[i].pc # "RETURNED" /\ calls'[i].pc = "RETURNED"
                 /\ Outcome(calls'[i]) = "ACCEPTED")
                => Len(db') = Len(db) + 1 /\ db'[Len(db')].id = calls'[i].resp.row_id
          /\ Len(db') > Len(db)
             => /\ Len(db') = Len(db) + 1
                /\ \E i \in CallIds : calls[i].pc # "RETURNED" /\ calls'[i].wrote]_vars


\* ----------------------------------------------------------------- C29
\* the dedup check of call i is over and its handler has not gone on
JustChecked(i) == calls[i].pc = "DEDUP_CHECKED"
\* a check at time t would report key k, held in store r, as a duplicate
ReportedAt(r, k, t) == k \in DOMAIN r /\ t - r[k] <= 90
\* the keys of the dedup store before and after the check of call i
KeysAround(i) == DOMAIN calls[i].recent0 \cup DOMAIN _recent_keys

\* C29: the dedup check of a call with key K removes the expired entries,
\* caches K when K is not a duplicate, and changes nothing else: an
\* unexpired entry of another key keeps its timestamp, no other key is
\* added, and whether a check of another key at that time or later reports
\* a duplicate is the same before and after.
C29_OtherKeysUntouched ==
    \A i \in CallIds :
        JustChecked(i)
        => LET c == calls[i]
           IN  /\ \A k \in KeysAround(i) \ {c.key} :
                     /\ k \in DOMAIN c.recent0
                     /\ IF c.now_ts - c.recent0[k] <= 90
                        THEN k \in DOMAIN _recent_keys /\ _recent_keys[k] = c.recent0[k]
                        ELSE k \notin DOMAIN _recent_keys
                     /\ \A t \in c.now_ts..MaxClock :
                           ReportedAt(_recent_keys, k, t) <=> ReportedAt(c.recent0, k, t)
               /\ c.key \in DOMAIN _recent_keys
               /\ _recent_keys[c.key] = IF c.dup THEN c.recent0[c.key] ELSE c.now_ts

\* the check of a call cached its key again after the TTL and removed
\* nothing else: the entry of another key, 46 seconds old, kept its timestamp
C29_Witness ==
    \E i \in CallIds :
        /\ JustChecked(i) /\ ~calls[i].dup /\ calls[i].key \in DOMAIN calls[i].recent0
        /\ \E k \in DOMAIN calls[i].recent0 \ {calls[i].key} :
              /\ calls[i].now_ts - calls[i].recent0[k] = 46
              /\ _recent_keys[k] = calls[i].recent0[k]


\* ----------------------------------------------------------------- C30
\* calls i and j carry ABSOLUTE requests that are equal but for anchor_now
SameButAnchor(i, j) ==
    /\ i # j /\ calls[i].mode = T_ABSOLUTE /\ calls[j].mode = T_ABSOLUTE
    /\ [ArgsOf(calls[i]) EXCEPT !.anchor_now = <<>>]
       = [ArgsOf(calls[j]) EXCEPT !.anchor_now = <<>>]
\* the date and the time shown in the reply to call c
Shown(c) == <<c.resp.date, c.resp.time>>

\* C30: two ABSOLUTE calls that are equal but for anchor_now resolve to the
\* same date, weekday and time and have the same dedup key; the later one is
\* a duplicate exactly when it is checked within 90 seconds of the process
\* clock after the earlier one, whatever instants the two anchors name, and
\* the timestamp cached for the key is a reading of the process clock.
C30_AnchorIgnoredInAbsolute ==
    \A i, j \in CallIds :
        SameButAnchor(i, j)
        => /\ (calls[i].looked /\ calls[j].looked)
              => /\ calls[i].dt_date = calls[j].dt_date /\ calls[i].date = calls[j].date
                 /\ calls[i].time_str = calls[j].time_str
                 /\ _weekday_ko(calls[i].dt_date) = "mok"
                 /\ calls[i].key = calls[j].key
                 /\ (i < j /\ OnlyUsers(i, j))
                    => /\ ~calls[i].dup
                       /\ calls[j].dup <=> calls[j].now_ts - calls[i].now_ts <= 90
                       /\ calls[j].pc = "DEDUP_CHECKED"
                          => _recent_keys[calls[i].key]
                             = IF calls[j].dup THEN calls[i].now_ts ELSE calls[j].now_ts
           /\ (CheckedPair(i, j) /\ i < j /\ OnlyUsers(i, j))
              => /\ Outcome(calls[i]) = "ACCEPTED"
                 /\ Outcome(calls[j]) = IF calls[j].now_ts - calls[i].now_ts <= 90
                                        THEN "REJECTED_DUPLICATE" ELSE "ACCEPTED"
                 /\ Shown(calls[i]) = Shown(calls[j])
                 /\ \A k \in 1..Len(db) : db[k].day_of_week = "mok"

\* the request was saved with an anchor in March and reported as a duplicate
\* 90 seconds later with an anchor at the end of December
C30_Witness ==
    \E i, j \in CallIds :
        /\ CheckedPair(i, j) /\ i < j /\ SameButAnchor(i, j)
        /\ ArgsOf(calls[i]).anchor_now = A_2024_03_31
        /\ ArgsOf(calls[j]).anchor_now = A_minus_05
        /\ calls[j].now_ts - calls[i].now_ts = 90
        /\ Outcome(calls[i]) = "ACCEPTED" /\ Outcome(calls[j]) = "REJECTED_DUPLICATE"
        /\ Len(db) = 1

=============================================================================
